---- MODULE Spec2Model ----
(***************************************************************************)
(* Notepad + Tools (src/app.js): the two repositories (state.notes and     *)
(* state.tools mirrors over the IndexedDB object stores 'notes' and        *)
(* 'tools'), the filter/sort query and the import merge.                   *)
(*                                                                         *)
(* JavaScript objects have identity: the mirrors, state.currentNote,       *)
(* state.editingTool and the closures of suspended async functions hold    *)
(* references to the same note/tool objects.  The model keeps a heap       *)
(* (reference -> object) and the mirrors are sequences of references.      *)
(* store.put(item) takes a structured clone of the item when it is called, *)
(* so a pending request carries the object's value at that moment.         *)
(* IndexedDB runs the read/write transactions of one object store in the   *)
(* order they were created: the pending requests of a store form a queue.  *)
(* A handler runs to its first await atomically (one action); the          *)
(* request's onsuccess/onerror and the continuation of the awaiting async  *)
(* function run atomically too (one action).                               *)
(*                                                                         *)
(* Strings are sequences of one-character strings.  Timestamps are the     *)
(* clock's integer instants (toISOString prints an instant in a fixed      *)
(* width UTC form, new Date(...) reads the same instant back).             *)
(***************************************************************************)
EXTENDS Integers, Sequences, FiniteSets, TLC

\* ---------------------------------------------------------------- bounds
MaxTime == 1
MaxObjs == 3
MaxIds == 2
MaxSnapshot == 2
MaxPending == 2
MaxOps == 3
MaxTimers == 4
MaxLogouts == 2

Null == 0
Refs == 1..MaxObjs
Ids == 1..MaxIds
Collections == {"notes", "tools"}

\* A free heap cell.
NoObj == [free |-> TRUE]

\* ---------------------------------------------------------------- strings
UntitledNote == <<"U", "n", "t", "i", "t", "l", "e", "d", " ", "N", "o", "t", "e">>
\* A string is the sequence of its characters.  An ASCII character is written
\* as itself; a character outside ASCII is written as its code point, "U+00E9".
\* The WhiteSpace and LineTerminator characters that String.prototype.trim strips:
\* tab, line feed, line tabulation, form feed, carriage return, space, no-break
\* space, the other space separators, the line and paragraph separators and the
\* byte order mark.
VT == ""
Whitespace ==
    {"\t", "\n", VT, "\f", "\r", " ", "U+00A0", "U+1680",
     "U+2000", "U+2001", "U+2002", "U+2003", "U+2004", "U+2005", "U+2006", "U+2007",
     "U+2008", "U+2009", "U+200A", "U+2028", "U+2029", "U+202F", "U+205F", "U+3000",
     "U+FEFF"}

\* String.prototype.trim
RECURSIVE trimStart(_)
trimStart(s) == IF s # <<>> /\ Head(s) \in Whitespace THEN trimStart(Tail(s)) ELSE s
RECURSIVE trimEnd(_)
trimEnd(s) ==
    IF s # <<>> /\ s[Len(s)] \in Whitespace THEN trimEnd(SubSeq(s, 1, Len(s) - 1)) ELSE s
trim(s) == trimEnd(trimStart(s))

\* String.prototype.split(','): "" gives [""], "a," gives ["a", ""].
RECURSIVE split(_)
split(s) ==
    IF \A i \in 1..Len(s) : s[i] # ","
    THEN <<s>>
    ELSE LET i == CHOOSE k \in 1..Len(s) : s[k] = "," /\ \A j \in 1..(k - 1) : s[j] # ","
         IN <<SubSeq(s, 1, i - 1)>> \o split(SubSeq(s, i + 1, Len(s)))

IsNonEmpty(t) == Len(t) > 0
\* tagsInput.split(',').map(t => t.trim()).filter(t => t.length > 0)
parseTags(tagsInput) ==
    LET parts == split(tagsInput)
    IN SelectSeq([i \in 1..Len(parts) |-> trim(parts[i])], IsNonEmpty)

\* ---------------------------------------------------------------- objects
\* o[f] = v on a JavaScript object: sets an own property, adding it if absent.
SetField(o, f, v) == [x \in (DOMAIN o) \cup {f} |-> IF x = f THEN v ELSE o[x]]

Has(o, f) == f \in DOMAIN o

\* Object.assign(target, source): every own property of source overwrites or is
\* added to target; the target's other properties stay.
ObjectAssign(target, source) ==
    [f \in (DOMAIN target) \cup (DOMAIN source) |->
        IF f \in DOMAIN source THEN source[f] ELSE target[f]]

\* The records a sequence of references points at.
Deref(h, arr) == [i \in 1..Len(arr) |-> h[arr[i]]]

IdsOf(recs) == {recs[i].id : i \in 1..Len(recs)}

CountId(recs, id) == Cardinality({i \in 1..Len(recs) : recs[i].id = id})

\* Array.prototype.findIndex(x => x.id === id): 1-based, 0 for JavaScript's -1.
findIndex(h, arr, id) ==
    IF \E i \in 1..Len(arr) : h[arr[i]].id = id
    THEN CHOOSE i \in 1..Len(arr) :
            /\ h[arr[i]].id = id
            /\ \A j \in 1..(i - 1) : h[arr[j]].id # id
    ELSE 0

\* Array.prototype.find(x => x.id === id): the reference, Null for undefined.
find(h, arr, id) == IF findIndex(h, arr, id) = 0 THEN Null ELSE arr[findIndex(h, arr, id)]

\* Array.prototype.filter(x => x.id === id) (the test inverted).
filterOnlyId(h, arr, id) ==
    LET Keep(r) == h[r].id = id IN SelectSeq(arr, Keep)

\* Array.prototype.filter(x => x.id !== id)
filterOutId(h, arr, id) ==
    LET Keep(r) == h[r].id # id IN SelectSeq(arr, Keep)

\* ---------------------------------------------------------------- object store
\* The ids are UUIDs, and a store lists its records in the order of their keys.
\* The ids in Ids are those of the notes and tools of the user; the ids in
\* SmokeIds are those that crypto.randomUUID gives to the test records of
\* runSmokeTests.  As keys, two ids of SmokeIds lie before the first id of Ids,
\* two between any two of them and two after the last: the test records of two
\* runSmokeTests calls can come anywhere among the user's records, in either
\* order.
SmokeIds == (MaxIds + 1)..(MaxIds + 2 * (MaxIds + 1))
Key(id) ==
    IF id \in Ids THEN 3 * id
    ELSE 3 * ((id - MaxIds - 1) \div 2) + 1 + ((id - MaxIds - 1) % 2)

\* An IndexedDB object store with keyPath 'id': its records in key order.
\* store.put(item): insert, or replace the record with the same key.
storePut(recs, item) ==
    LET Below(r) == Key(r.id) < Key(item.id)
        Above(r) == Key(r.id) > Key(item.id)
    IN SelectSeq(recs, Below) \o <<item>> \o SelectSeq(recs, Above)

\* recs.splice(recs.findIndex(r => r.id === id), 1): without a record of that key,
\* the index -1 removes the last record.
storeDeleteSplice(recs, id) ==
    LET Other(r) == r.id # id
    IN IF \E i \in 1..Len(recs) : recs[i].id = id THEN SelectSeq(recs, Other)
       ELSE SubSeq(recs, 1, Len(recs) - 1)

\* store.delete(id): remove the record with that key if there is one.
storeDelete(recs, id) ==
    LET Other(r) == r.id # id IN SelectSeq(recs, Other)

\* store.getAll()
getAllFromStore(database, storeName) == database[storeName]

VARIABLES
    now,               \* the wall clock read by new Date()
    heap,              \* reference -> object
    notes,             \* state.notes
    tools,             \* state.tools
    currentNote,       \* state.currentNote
    editingTool,       \* state.editingTool
    toolModalActive,   \* #tool-modal has class 'active'
    isDirty,           \* state.isDirty
    db,                \* the object stores 'notes' and 'tools'
    pending,           \* per object store, the requests not yet completed
    imp,               \* the handleImportFile calls in flight, by slot
    activeTagFilter,   \* state.activeTagFilter
    activeTab,         \* state.activeTab
    searchQuery,       \* the values of #notes-search and #tools-search
    sortBy,            \* the values of #notes-sort and #tools-sort
    queried,           \* history: per collection, the last filterAndSort call
    fuel,              \* how many more user and timer events the session has
    ev,                \* history: what the last step did
    lastSave,          \* history: the last save that was confirmed by the store
    boot               \* the page load: init(), the auth module, the initApp calls

vars == <<now, heap, notes, tools, currentNote, editingTool, toolModalActive, isDirty,
          db, pending, imp, activeTagFilter, activeTab, searchQuery, sortBy, queried,
          fuel, ev, lastSave, boot>>

\* The variables a handler reads and writes, as one record, so that the calls a
\* handler makes compose: each function below maps a state to the state after it.
Cur ==
    [now |-> now, heap |-> heap, notes |-> notes, tools |-> tools,
     currentNote |-> currentNote, editingTool |-> editingTool,
     toolModalActive |-> toolModalActive, isDirty |-> isDirty,
     db |-> db, pending |-> pending, imp |-> imp, boot |-> boot,
     activeTagFilter |-> activeTagFilter, activeTab |-> activeTab]

Mirror(s, c) == IF c = "notes" THEN s.notes ELSE s.tools
MirrorView(s, c) == Deref(s.heap, Mirror(s, c))

Range(f) == {f[i] : i \in DOMAIN f}

\* The objects something still refers to; the others are garbage, and their heap
\* cells are freed (no code can observe an unreachable object).
LiveRefs(s) ==
    (Range(s.notes) \cup Range(s.tools) \cup {s.currentNote, s.editingTool}
        \cup {s.pending.notes[i].ref : i \in 1..Len(s.pending.notes)}
        \cup {s.pending.tools[i].ref : i \in 1..Len(s.pending.tools)}) \ {Null}

Sweep(s) == [r \in Refs |-> IF r \in LiveRefs(s) THEN s.heap[r] ELSE NoObj]

FreeRefs(s) == {r \in Refs : s.heap[r] = NoObj}
alloc(s) == CHOOSE r \in FreeRefs(s) : \A q \in FreeRefs(s) : r <= q

\* crypto.randomUUID() returns an id that occurs nowhere: in no object, no stored
\* record, no pending request and no snapshot being imported.
SnapshotIds(d) == IdsOf(d.notes.v) \cup IdsOf(d.tools.v)
UsedIds(s) ==
    {s.heap[r].id : r \in Refs \ FreeRefs(s)}
        \cup IdsOf(s.db.notes) \cup IdsOf(s.db.tools)
        \cup {s.pending.notes[i].id : i \in 1..Len(s.pending.notes)}
        \cup {s.pending.tools[i].id : i \in 1..Len(s.pending.tools)}
        \cup UNION {SnapshotIds(s.imp[k].data) : k \in DOMAIN s.imp}
randomUUID(s) == Ids \ UsedIds(s)

\* ---------------------------------------------------------------- rendering
\* renderNotesList throws a TypeError when a listed note has no content
\* (note.content.substring) or no tags (note.tags.length); renderToolsGrid when a
\* listed tool has no tags.  (With the search boxes empty and no tag filter, which
\* is the state every handler below runs in, every record is listed.)  Both throw
\* when the application's elements are gone: the loading screen or the login
\* screen has replaced the content of #app, and the search box they read is null.
renderNotesListThrows(s) ==
    \/ s.boot.screen # "app"
    \/ \E i \in 1..Len(s.notes) :
           ~Has(s.heap[s.notes[i]], "content") \/ ~Has(s.heap[s.notes[i]], "tags")
renderToolsGridThrows(s) ==
    \/ s.boot.screen # "app"
    \/ \E i \in 1..Len(s.tools) : ~Has(s.heap[s.tools[i]], "tags")

\* ---------------------------------------------------------------- store requests
\* putInStore(storeName, item): store.put(item) clones item now; the promise
\* settles later.  fn/ref say which async function awaits it and the object it
\* holds.  before/solo/via are history: the mirror when the repository operation
\* was entered, whether no other request of this store was pending then, the
\* operation's name where it is not fn, and the time at which the request was made.
\* call says which runSmokeTests call awaits the request (0: none).
NoReq == [op |-> "", item |-> NoObj, id |-> 0, fn |-> "", ref |-> Null, cand |-> NoObj,
          before |-> <<>>, solo |-> FALSE, via |-> "", issued |-> 0, call |-> 0]
putInStore(s, storeName, item, fn, ref, entry) ==
    [s EXCEPT !.pending[storeName] =
        Append(@, [op |-> "put", item |-> item, id |-> item.id, fn |-> fn, ref |-> ref,
                   cand |-> NoObj, before |-> MirrorView(entry, storeName),
                   solo |-> entry.pending[storeName] = <<>>, via |-> fn,
                   issued |-> s.now, call |-> 0])]

\* deleteFromStore(storeName, id)
deleteFromStore(s, storeName, id, fn) ==
    [s EXCEPT !.pending[storeName] =
        Append(@, [op |-> "delete", item |-> NoObj, id |-> id, fn |-> fn, ref |-> Null,
                   cand |-> NoObj, before |-> MirrorView(s, storeName),
                   solo |-> s.pending[storeName] = <<>>, via |-> fn,
                   issued |-> s.now, call |-> 0])]

\* getAllFromStore(storeName), up to the time the request is made: store.getAll()
\* in a readonly transaction, which waits for the requests made before it.
getAllRequest(s, storeName, fn) ==
    [s EXCEPT !.pending[storeName] =
        Append(@, [NoReq EXCEPT !.op = "getAll", !.fn = fn, !.via = fn,
                                !.before = MirrorView(s, storeName),
                                !.solo = s.pending[storeName] = <<>>,
                                !.issued = s.now])]

\* ---------------------------------------------------------------- notes
createNote(s, id) ==
    [id |-> id, title |-> UntitledNote, content |-> <<>>, tags |-> <<>>,
     pinned |-> FALSE, archived |-> FALSE, createdAt |-> s.now, updatedAt |-> s.now]

\* saveNote, up to its await.
saveNote(s, note) ==
    LET s1 == [s EXCEPT !.heap[note] = SetField(@, "updatedAt", s.now)]
    IN putInStore(s1, "notes", s1.heap[note], "saveNote", note, s)

\* saveNote, after its await: replace by id or append, render, clear the flag.
saveNoteResume(s, note) ==
    LET index == findIndex(s.heap, s.notes, s.heap[note].id)
        s1 == [s EXCEPT !.notes = IF index > 0 THEN [@ EXCEPT ![index] = note]
                                   ELSE Append(@, note)]
    IN IF renderNotesListThrows(s1) THEN s1 ELSE [s1 EXCEPT !.isDirty = FALSE]

\* deleteNote after the confirm dialog was accepted, up to its await.
deleteNote(s, id) == deleteFromStore(s, "notes", id, "deleteNote")

\* deleteNote, after its await.
deleteNoteResume(s, id) ==
    LET s1 == [s EXCEPT !.notes = filterOutId(s.heap, @, id)]
    IN IF s1.currentNote # Null /\ s1.heap[s1.currentNote].id = id
       THEN [s1 EXCEPT !.currentNote = Null]
       ELSE s1

\* saveCurrentNote: the editor's fields go into the current note, which is saved.
saveCurrentNote(s, dom) ==
    IF s.currentNote = Null THEN s
    ELSE LET o1 == SetField(s.heap[s.currentNote], "title",
                            IF dom.title = <<>> THEN UntitledNote ELSE dom.title)
             o2 == SetField(o1, "content", dom.content)
             o3 == SetField(o2, "tags", parseTags(dom.tags))
         IN saveNote([s EXCEPT !.heap[s.currentNote] = o3], s.currentNote)

selectNote(s, noteId, dom) ==
    LET note == find(s.heap, s.notes, noteId)
        s1 == IF s.currentNote # Null /\ s.isDirty THEN saveCurrentNote(s, dom) ELSE s
    IN IF note = Null THEN s
       ELSE [s1 EXCEPT !.currentNote = note, !.isDirty = FALSE]

\* ---------------------------------------------------------------- tools
createTool(s, id) ==
    [id |-> id, name |-> <<>>, url |-> <<>>, description |-> <<>>, tags |-> <<>>,
     favorite |-> FALSE, createdAt |-> s.now, updatedAt |-> s.now]

\* saveTool, up to its await; entry is the state in which the repository operation
\* that ends in this save was entered (history only).
saveTool(s, tool, entry) ==
    LET s1 == [s EXCEPT !.heap[tool] = SetField(@, "updatedAt", s.now)]
    IN putInStore(s1, "tools", s1.heap[tool], "saveTool", tool, entry)

\* saveTool, after its await.
saveToolResume(s, tool) ==
    LET index == findIndex(s.heap, s.tools, s.heap[tool].id)
    IN [s EXCEPT !.tools = IF index > 0 THEN [@ EXCEPT ![index] = tool]
                            ELSE Append(@, tool)]

deleteTool(s, id) == deleteFromStore(s, "tools", id, "deleteTool")

deleteToolResume(s, id) == [s EXCEPT !.tools = filterOutId(s.heap, @, id)]

\* !tool.favorite, where a missing property reads as undefined.
notFavorite(o) == ~(Has(o, "favorite") /\ o.favorite)

toggleFavorite(s, id) ==
    LET tool == find(s.heap, s.tools, id)
        s1 == saveTool([s EXCEPT !.heap[tool] = SetField(@, "favorite", notFavorite(@))],
                       tool, s)
    IN IF tool = Null THEN s
       ELSE [s1 EXCEPT !.pending.tools[Len(s1.pending.tools)].via = "toggleFavorite"]

\* showToolModal throws at tool.tags.join when the tool has no tags, after it has
\* set state.editingTool and before classList.add('active'): the modal stays as
\* it was, open or closed.
showToolModal(s, tool) ==
    [s EXCEPT !.editingTool = tool,
              !.toolModalActive = @ \/ Has(s.heap[tool], "tags")]

hideToolModal(s) == [s EXCEPT !.editingTool = Null, !.toolModalActive = FALSE]

\* A form handler that tests the fields as typed, before trimming them.
saveToolFromModalAsTyped(s, form) ==
    LET t == s.editingTool
        o1 == SetField(s.heap[t], "name", trim(form.name))
        o2 == SetField(o1, "url", trim(form.url))
        o3 == SetField(o2, "description", trim(form.description))
        o4 == SetField(o3, "tags", parseTags(form.tags))
        s1 == [s EXCEPT !.heap[t] = o4]
    IN IF form.name = <<>> \/ form.url = <<>> THEN s
       ELSE hideToolModal(saveTool(s1, t, s1))

\* saveToolFromModal with the form's fields; an empty name or url is refused.
saveToolFromModal(s, form) ==
    LET name == trim(form.name)
        url == trim(form.url)
        t == s.editingTool
        o1 == SetField(s.heap[t], "name", name)
        o2 == SetField(o1, "url", url)
        o3 == SetField(o2, "description", trim(form.description))
        o4 == SetField(o3, "tags", parseTags(form.tags))
        s1 == [s EXCEPT !.heap[t] = o4]
    IN IF name = <<>> \/ url = <<>> THEN s
       ELSE hideToolModal(saveTool(s1, t, s1))

\* ---------------------------------------------------------------- import
\* A parsed snapshot: data.notes and data.tools are each missing (undefined), an
\* array of candidate records, or a number (truthy, not iterable).
Missing == [t |-> "missing", v |-> <<>>]
Array(v) == [t |-> "array", v |-> v]
Number == [t |-> "number", v |-> <<>>]
NoData == [parses |-> TRUE, notes |-> Missing, tools |-> Missing]
\* had, hadStore and prev are history: the records of the two mirrors and of the
\* two stores when the file had been read, and the snapshot of the import that
\* succeeded just before this one (NoData when something else happened since).
\* wrote is history too: the number of candidates of each collection whose put the
\* store has confirmed.  alert is what the closing alert says: the two numbers of
\* the success message, or no numbers at all.
NoHad == [notes |-> <<>>, tools |-> <<>>]
NoneWritten == [notes |-> 0, tools |-> 0]
NoNumbers == [numbers |-> FALSE, notes |-> 0, tools |-> 0]
Idle == [pc |-> "idle", data |-> NoData, i |-> 0, result |-> "", had |-> NoHad,
         hadStore |-> NoHad, prev |-> NoData, wrote |-> NoneWritten, alert |-> NoNumbers]

\* handleImportFile has no guard against a second change event: every call is a
\* function of its own, with its own data and loop position.  At most MaxImports
\* calls are in flight at a time.
MaxImports == 2
Imports == 1..MaxImports
NoImport == [k \in Imports |-> Idle]
importThrows(s, k) == [s EXCEPT !.imp[k].pc = "idle", !.imp[k].result = "failed"]

\* One pass of a for-of body of call k up to its await: the candidate overwrites
\* the mirror's record of that id in place (Object.assign) and that record is put,
\* or the candidate itself is put (and pushed after the await).
importUpsert(s, k, c, cand) ==
    LET existing == find(s.heap, Mirror(s, c), cand.id)
    IN IF existing # Null
       THEN LET s1 == [s EXCEPT !.heap[existing] = ObjectAssign(@, cand)]
                s2 == putInStore(s1, c, s1.heap[existing], "importUpdate", existing, s)
            IN [s2 EXCEPT !.pending[c][Len(s2.pending[c])].cand = cand,
                          !.pending[c][Len(s2.pending[c])].call = k]
       ELSE IF FreeRefs(s) = {}
       THEN [s EXCEPT !.imp[k].pc = "stuck"]
       ELSE LET r == alloc(s)
                s1 == [s EXCEPT !.heap[r] = cand]
                s2 == putInStore(s1, c, cand, "importAdd", r, s)
            IN [s2 EXCEPT !.pending[c][Len(s2.pending[c])].cand = cand,
                          !.pending[c][Len(s2.pending[c])].call = k]

\* After both loops: the two renders, then the success alert; a render that throws
\* lands in the catch block, which alerts the failure.
importFinish(s, k) ==
    IF renderNotesListThrows(s) \/ renderToolsGridThrows(s)
    THEN importThrows(s, k)
    ELSE [s EXCEPT !.imp[k].pc = "idle", !.imp[k].result = "success",
                   !.imp[k].alert = [numbers |-> TRUE,
                                     notes |-> Len(s.imp[k].data.notes.v),
                                     tools |-> Len(s.imp[k].data.tools.v)]]

\* Call k of handleImportFile from the candidate at its pc/i on, up to the next
\* await or to the end.  for-of over a number throws, which the catch block reports.
importAdvance(s, k) ==
    LET d == s.imp[k].data
        inNotes == s.imp[k].pc = "notes" /\ s.imp[k].i <= Len(d.notes.v)
        toolsI == IF s.imp[k].pc = "tools" THEN s.imp[k].i ELSE 1
    IN IF s.imp[k].pc = "notes" /\ d.notes.t # "array"
       THEN importThrows(s, k)
       ELSE IF inNotes
       THEN importUpsert(s, k, "notes", d.notes.v[s.imp[k].i])
       ELSE IF d.tools.t # "array"
       THEN importThrows(s, k)
       ELSE IF toolsI <= Len(d.tools.v)
       THEN importUpsert([s EXCEPT !.imp[k].pc = "tools", !.imp[k].i = toolsI],
                         k, "tools", d.tools.v[toolsI])
       ELSE importFinish(s, k)

\* Call k of handleImportFile after await file.text(): parse, validate, start the
\* loops.
handleImportFileRead(s, k) ==
    LET d == s.imp[k].data
        s0 == [s EXCEPT !.imp[k].had = [notes |-> MirrorView(s, "notes"),
                                        tools |-> MirrorView(s, "tools")],
                        !.imp[k].hadStore = s.db]
    IN IF ~d.parses
       THEN importThrows(s0, k)
       ELSE IF d.notes.t = "missing" \/ d.tools.t = "missing"
       THEN [s0 EXCEPT !.imp[k].pc = "idle", !.imp[k].result = "invalid"]
       ELSE importAdvance([s0 EXCEPT !.imp[k].pc = "notes", !.imp[k].i = 1], k)

\* The call of handleImportFile that awaited req, after the put succeeded.
importResume(s, req) ==
    LET k == req.call
        c == s.imp[k].pc
        s1 == IF req.fn = "importAdd"
              THEN IF c = "notes" THEN [s EXCEPT !.notes = Append(@, req.ref)]
                   ELSE [s EXCEPT !.tools = Append(@, req.ref)]
              ELSE s
    IN importAdvance([s1 EXCEPT !.imp[k].i = @ + 1, !.imp[k].wrote[c] = @ + 1], k)

\* The call of handleImportFile that awaited req, after the put failed: the catch
\* block.
importCatch(s, req) == importThrows(s, req.call)

\* ---------------------------------------------------------------- the page load
\* init() waits for window.authModule (up to MaxRetries timeouts of 100 ms), sets
\* window.appInitialized and awaits initAuth(); the auth module exchanges the
\* session_id of the URL or asks the server for the user of the session cookie.
\* boot.apps holds one record per initApp call: where the call is, and (history)
\* the value of authState.isAuthenticated when it was started.  outcome is
\* history: how the authentication of this page load ended.  made is history:
\* the number of notes that the last click on #new-note-btn created.
MaxRetries == 20
\* The autosave-interval setting: the default, another period, and 'off'.
DefaultInterval == "3000"
AutosaveOff == "off"
Intervals == {DefaultInterval, "1000", AutosaveOff}
DefaultSettings == [theme |-> "light", autosaveInterval |-> DefaultInterval]
\* localStorage without the key notepad_settings.
NoSettings == [theme |-> "", autosaveInterval |-> ""]
NoUser == "null"
SomeUser == "user"
\* A response of /auth/me that is not null and still falsy (an empty string).
FalsyUser == ""
\* if (user)
Truthy(user) == user \notin {NoUser, FalsyUser}
SignedOut == [user |-> NoUser, isAuthenticated |-> FALSE, isLoading |-> TRUE]
PageLoad(hasSessionId, module) ==
    [pc |-> "waiting", retries |-> 0, module |-> module, hasSessionId |-> hasSessionId,
     authState |-> SignedOut, appInitialized |-> FALSE, apps |-> <<>>, listeners |-> 0,
     screen |-> "auth-loading", logout |-> 0, outcome |-> "", made |-> 0,
     settings |-> DefaultSettings, stored |-> NoSettings,
     autosaveTimer |-> Null, timers |-> {}, nextTimer |-> 1]

\* loadSettings: the settings that localStorage holds, if any, replace
\* state.settings.
loadSettings(b) ==
    IF b.stored = NoSettings THEN b ELSE [b EXCEPT !.settings = b.stored]

\* setupAutosave: the interval timer that state.autosaveTimer names is cleared,
\* and unless the interval is 'off' setInterval starts a new one, whose handle
\* is kept in state.autosaveTimer.
setupAutosave(b) ==
    LET b1 == IF b.autosaveTimer # Null
              THEN [b EXCEPT !.timers = @ \ {b.autosaveTimer}, !.autosaveTimer = Null]
              ELSE b
    IN IF b1.settings.autosaveInterval # AutosaveOff
       THEN [b1 EXCEPT !.autosaveTimer = b1.nextTimer,
                       !.timers = @ \cup {b1.nextTimer},
                       !.nextTimer = @ + 1]
       ELSE b1

\* One listener of the change event of #autosave-interval: the setting is
\* assigned, saveSettings writes it to localStorage, setupAutosave follows.
\* localStorage.setItem throws when the storage takes no more data (saved is
\* FALSE), and the listener ends there.
autosaveIntervalChange(b, value, saved) ==
    LET b1 == [b EXCEPT !.settings.autosaveInterval = value]
    IN IF saved THEN setupAutosave([b1 EXCEPT !.stored = b1.settings]) ELSE b1

\* The change event reaches each registered listener in turn; saves tells, for
\* each listener, whether its localStorage.setItem succeeds.
RECURSIVE changeAll(_, _, _)
changeAll(b, value, saves) ==
    IF saves = <<>> THEN b
    ELSE changeAll(autosaveIntervalChange(b, value, Head(saves)), value, Tail(saves))

\* One listener of the click event of #theme-toggle: the theme flips and
\* saveSettings writes the settings to localStorage, or throws.
themeToggle(b, saved) ==
    LET b1 == [b EXCEPT !.settings.theme = IF @ = "light" THEN "dark" ELSE "light"]
    IN IF saved THEN [b1 EXCEPT !.stored = b1.settings] ELSE b1

\* The click reaches each registered listener in turn; saves tells, for each
\* listener, whether its localStorage.setItem succeeds.
RECURSIVE toggleAll(_, _)
toggleAll(b, saves) ==
    IF saves = <<>> THEN b ELSE toggleAll(themeToggle(b, Head(saves)), Tail(saves))

\* initApp(), up to its first await (initDB).  smoke is the await at which the
\* call's runSmokeTests stands, once it has started.
startApp(b) ==
    [b EXCEPT !.apps = Append(@, [pc |-> "initDB", smoke |-> "", uuid |-> 0,
                                  authed |-> b.authState.isAuthenticated])]

\* An init() that starts the application whatever the authentication gave.
initAfterAuthAlways(b) == [startApp(b) EXCEPT !.pc = "done"]

\* init() after await initAuth(): the application is started when the user is
\* authenticated.
initAfterAuth(b) ==
    IF b.authState.isAuthenticated
    THEN [startApp(b) EXCEPT !.pc = "done"]
    ELSE [b EXCEPT !.pc = "done"]

\* init() once window.authModule is there, up to the await inside initAuth():
\* handleAuthCallback awaits the session exchange when the URL carries a
\* session_id, otherwise checkExistingAuth awaits getCurrentUser.
\* (retries is a local of the waiting loop, which nothing reads once the loop
\* has ended with the module there: it is given up here.)
initProceed(b) ==
    IF b.hasSessionId
    THEN [b EXCEPT !.appInitialized = TRUE, !.pc = "exchanging", !.retries = 0,
                   !.screen = "authenticating"]
    ELSE [b EXCEPT !.appInitialized = TRUE, !.pc = "checking", !.retries = 0]

\* handleAuthCallback after exchangeSessionId: result is "ok" (success with a
\* user), "nouser" (a response without success or without a user) or "fail"
\* (the request failed); then initAuth and init run on.  showApp only removes a
\* class from #app: the loading screen that showLoadingScreen has put in the
\* place of the application's elements stays.
handleAuthCallback(b, result) ==
    IF result = "ok"
    THEN initAfterAuth([b EXCEPT !.authState.user = SomeUser,
                                 !.authState.isAuthenticated = TRUE,
                                 !.hasSessionId = FALSE, !.outcome = result])
    ELSE initAfterAuth([b EXCEPT !.screen = "error", !.outcome = result])

\* checkExistingAuth after getCurrentUser (null on 401 and on every error); it
\* calls window.appInitialized itself, and then initAuth and init run on.
checkExistingAuth(b, user) ==
    IF Truthy(user)
    THEN LET b1 == [b EXCEPT !.authState = [user |-> user, isAuthenticated |-> TRUE,
                                            isLoading |-> FALSE],
                             !.screen = "app", !.outcome = "session"]
             b2 == IF b1.appInitialized THEN startApp(b1) ELSE b1
         IN initAfterAuth(b2)
    ELSE initAfterAuth([b EXCEPT !.authState.isAuthenticated = FALSE,
                                 !.authState.isLoading = FALSE,
                                 !.screen = "login", !.outcome = "nosession"])

\* A logoutUser that forgets the user and leaves isAuthenticated as it was.
logoutUserKeepsFlag(b, ok) ==
    IF ok
    THEN [b EXCEPT !.authState.user = NoUser, !.stored = NoSettings,
                   !.screen = "login", !.logout = @ - 1]
    ELSE [b EXCEPT !.logout = @ - 1]

\* logoutUser after its fetch (logout counts the calls whose request is
\* pending): a response that is ok signs the user out, clears localStorage and
\* shows the login screen; anything else is logged.
logoutUser(b, ok) ==
    IF ok
    THEN [b EXCEPT !.authState.user = NoUser, !.authState.isAuthenticated = FALSE,
                   !.stored = NoSettings, !.screen = "login", !.logout = @ - 1]
    ELSE [b EXCEPT !.logout = @ - 1]

\* The page as the sessions below find it: the session cookie gave the user,
\* checkExistingAuth and init have each called initApp; the first call has
\* registered its listeners and its runSmokeTests has run to its end, the
\* second call has failed at initDB.  One set of listeners is registered.
Booted ==
    [PageLoad(FALSE, TRUE) EXCEPT
        !.pc = "done",
        !.authState = [user |-> SomeUser, isAuthenticated |-> TRUE, isLoading |-> FALSE],
        !.appInitialized = TRUE,
        !.apps = <<[pc |-> "ready", smoke |-> "done", uuid |-> 0, authed |-> TRUE],
                   [pc |-> "failed", smoke |-> "", uuid |-> 0, authed |-> TRUE]>>,
        !.listeners = 1, !.screen = "app", !.outcome = "session",
        !.autosaveTimer = 1, !.timers = {1}, !.nextTimer = 2]

\* state.notes = await getAllFromStore('notes'), and likewise the tools: the
\* mirror becomes an array of new objects, one per stored record.
RECURSIVE loadFrom(_, _, _)
loadFrom(s, c, recs) ==
    IF recs = <<>> THEN s
    ELSE LET r == alloc(s)
             s1 == [s EXCEPT !.heap[r] = Head(recs)]
             s2 == IF c = "notes" THEN [s1 EXCEPT !.notes = Append(@, r)]
                   ELSE [s1 EXCEPT !.tools = Append(@, r)]
         IN loadFrom(s2, c, Tail(recs))
loadNotes(s) ==
    LET s0 == [s EXCEPT !.notes = <<>>]
    IN loadFrom([s0 EXCEPT !.heap = Sweep(s0)], "notes", getAllFromStore(s.db, "notes"))
loadTools(s) ==
    LET s0 == [s EXCEPT !.tools = <<>>]
    IN loadFrom([s0 EXCEPT !.heap = Sweep(s0)], "tools", getAllFromStore(s.db, "tools"))

\* ---------------------------------------------------------------- runSmokeTests
\* initApp awaits runSmokeTests once the listeners are registered.  Each test
\* record gets its id from crypto.randomUUID: an id that occurs nowhere else,
\* which as a key may come before or after any other.  uuid is the id drawn;
\* apps[k].uuid is the id of the test record that the k-th call has put and not
\* yet asked to delete.
smokeUUID(s) == SmokeIds \ UsedIds([s EXCEPT !.heap = Sweep(s)])
Test == <<"t", "e", "s", "t">>
Important == <<"i", "m", "p", "o", "r", "t", "a", "n", "t">>
testTool(s, uuid) ==
    [id |-> uuid, name |-> <<"T", "e", "s", "t", " ", "T", "o", "o", "l">>,
     url |-> <<"h", "t", "t", "p", "s", ":", "/", "/", "t", "e", "s", "t", ".", "c", "o", "m">>,
     description |-> <<"T", "e", "s", "t", " ", "d", "e", "s", "c", "r", "i", "p", "t",
                       "i", "o", "n">>,
     tags |-> <<Test>>, favorite |-> FALSE, createdAt |-> s.now, updatedAt |-> s.now]
testNote(s, uuid) ==
    [id |-> uuid, title |-> <<"T", "e", "s", "t", " ", "N", "o", "t", "e">>,
     content |-> <<"T", "e", "s", "t", " ", "c", "o", "n", "t", "e", "n", "t">>,
     tags |-> <<Test>>, pinned |-> FALSE, archived |-> FALSE,
     createdAt |-> s.now, updatedAt |-> s.now]
favTool(s, uuid) ==
    [id |-> uuid, name |-> <<"F", "a", "v", " ", "T", "e", "s", "t">>,
     url |-> <<"h", "t", "t", "p", "s", ":", "/", "/", "f", "a", "v", ".", "c", "o", "m">>,
     description |-> <<>>, tags |-> <<>>, favorite |-> FALSE,
     createdAt |-> s.now, updatedAt |-> s.now]
tagNote(s, uuid) ==
    [id |-> uuid, title |-> <<"T", "a", "g", " ", "T", "e", "s", "t">>,
     content |-> <<"C", "o", "n", "t", "e", "n", "t">>, tags |-> <<Important>>,
     pinned |-> FALSE, archived |-> FALSE, createdAt |-> s.now, updatedAt |-> s.now]

\* The request made last on store c is the one the k-th call's runSmokeTests
\* awaits at step.
smokeAwait(s, k, c, step) ==
    [s EXCEPT !.pending[c][Len(s.pending[c])].call = k, !.boot.apps[k].smoke = step]

\* showTestBanner, at the end of the tests or in the catch block of
\* runSmokeTests; it throws when its elements are gone, and the catch block of
\* initApp logs that.  Either way the initApp call ends here.
smokeEnd(s, k, how) == [s EXCEPT !.boot.apps[k].smoke = how, !.boot.apps[k].uuid = 0]
smokeCatch(s, k) == smokeEnd(s, k, "error")

\* No heap cell is left for an object the tests need.
smokeStuck(s, k) == [s EXCEPT !.boot.apps[k].smoke = "stuck"]

\* The mirror of c can be loaded: a cell for every stored record once the old
\* mirror's objects are garbage.
CanLoad(s, c) ==
    LET s0 == IF c = "notes" THEN [s EXCEPT !.notes = <<>>] ELSE [s EXCEPT !.tools = <<>>]
    IN Cardinality(FreeRefs([s0 EXCEPT !.heap = Sweep(s0)])) >= Len(s.db[c])

\* runSmokeTests up to its first await: test 1 puts a tool.
smokeStart(s, k, uuid) ==
    smokeAwait(putInStore([s EXCEPT !.boot.apps[k].uuid = uuid], "tools",
                          testTool(s, uuid), "runSmokeTests", Null, s),
               k, "tools", "t1put")

\* setTagFilter('important') with the notes or the tools listed: renderTagFilter
\* throws when its elements are gone, the tag filter of the list when a record
\* has no tags.
tagFilterThrows(s) ==
    \/ s.boot.screen # "app"
    \/ s.activeTab = "notes" /\ \E i \in 1..Len(s.notes) : ~Has(s.heap[s.notes[i]], "tags")
    \/ s.activeTab # "notes" /\ \E i \in 1..Len(s.tools) : ~Has(s.heap[s.tools[i]], "tags")
\* filterAndSortNotes() with a tag filter set, whatever tab is shown: the filter
\* throws when a note has no tags.
filterAndSortNotesThrows(s) ==
    \/ s.boot.screen # "app"
    \/ \E i \in 1..Len(s.notes) : ~Has(s.heap[s.notes[i]], "tags")
\* clearTagFilter: renderTagFilter and the render of the list of the active tab.
clearTagFilterThrows(s) ==
    IF s.activeTab = "notes" THEN renderNotesListThrows(s) ELSE renderToolsGridThrows(s)

\* The ids that crypto.randomUUID can give when the k-th call runs on after the
\* request req: those free once the step has dropped what it drops (0 at a
\* step that makes no test record).
smokeDraw(s, k, req) ==
    LET step == s.boot.apps[k].smoke
    IN CASE step = "t1get2" -> smokeUUID(s)
         [] step = "t3tools" -> IF CanLoad(s, "tools") THEN smokeUUID(loadTools(s)) ELSE {0}
         [] step = "t4del" -> smokeUUID([s EXCEPT !.tools = filterOutId(s.heap, @, req.id)])
         [] OTHER -> {0}

\* The request of the k-th call that asks to delete its test record.
smokeDelete(s, k, c, step) ==
    smokeAwait(deleteFromStore([s EXCEPT !.boot.apps[k].uuid = 0], c,
                               s.boot.apps[k].uuid, "runSmokeTests"),
               k, c, step)

\* runSmokeTests of the k-th initApp call after the request req it awaited has
\* succeeded, up to its next await or to its end.
smokeResume(s, k, req, uuid) ==
    LET step == s.boot.apps[k].smoke
        su == [s EXCEPT !.boot.apps[k].uuid = uuid]
    IN CASE step = "t1put" ->
              smokeAwait(getAllRequest(s, "tools", "runSmokeTests"), k, "tools", "t1get")
         [] step = "t1get" -> smokeDelete(s, k, "tools", "t1del")
         [] step = "t1del" ->
              smokeAwait(getAllRequest(s, "tools", "runSmokeTests"), k, "tools", "t1get2")
         [] step = "t1get2" ->
              smokeAwait(putInStore(su, "notes", testNote(s, uuid), "runSmokeTests", Null, s),
                         k, "notes", "t2put")
         [] step = "t2put" ->
              smokeAwait(getAllRequest(s, "notes", "runSmokeTests"), k, "notes", "t2get")
         [] step = "t2get" -> smokeDelete(s, k, "notes", "t2del")
         [] step = "t2del" ->
              smokeAwait(getAllRequest(s, "notes", "runSmokeTests"), k, "notes", "t2get2")
         [] step = "t2get2" ->
              smokeAwait(getAllRequest(s, "notes", "loadNotes"), k, "notes", "t3notes")
         [] step = "t3notes" ->
              IF ~CanLoad(s, "notes") THEN smokeStuck(s, k)
              ELSE LET s1 == loadNotes(s)
                   IN IF renderNotesListThrows(s1) THEN smokeCatch(s1, k)
                      ELSE smokeAwait(getAllRequest(s1, "tools", "loadTools"),
                                      k, "tools", "t3tools")
         [] step = "t3tools" ->
              IF ~CanLoad(s, "tools") THEN smokeStuck(s, k)
              ELSE LET s1 == loadTools(s)
                   IN IF renderToolsGridThrows(s1) THEN smokeCatch(s1, k)
                      ELSE IF FreeRefs(s1) = {} THEN smokeStuck(s1, k)
                      ELSE LET r == alloc(s1)
                               s2 == [s1 EXCEPT !.heap[r] = favTool(s1, uuid),
                                                !.boot.apps[k].uuid = uuid]
                           IN smokeAwait(putInStore(s2, "tools", s2.heap[r],
                                                    "runSmokeTests", r, s2),
                                         k, "tools", "t4put")
         [] step = "t4put" ->
              smokeAwait(toggleFavorite([s EXCEPT !.tools = Append(@, req.ref)],
                                        s.boot.apps[k].uuid),
                         k, "tools", "t4toggle")
         [] step = "t4toggle" ->
              IF renderToolsGridThrows(s) THEN smokeCatch(s, k)
              ELSE smokeDelete(s, k, "tools", "t4del")
         [] step = "t4del" ->
              LET s1 == [s EXCEPT !.tools = filterOutId(s.heap, @, req.id)]
                  s2 == [s1 EXCEPT !.heap = Sweep(s1)]
              IN IF FreeRefs(s2) = {} THEN smokeStuck(s2, k)
                 ELSE LET r == alloc(s2)
                          s3 == [s2 EXCEPT !.heap[r] = tagNote(s2, uuid),
                                           !.boot.apps[k].uuid = uuid]
                      IN smokeAwait(putInStore(s3, "notes", s3.heap[r],
                                               "runSmokeTests", r, s3),
                                    k, "notes", "t5put")
         [] step = "t5put" ->
              LET s1 == [s EXCEPT !.notes = Append(@, req.ref),
                                  !.activeTagFilter = Important]
                  s2 == [s1 EXCEPT !.activeTagFilter = <<>>]
              IN IF tagFilterThrows(s1) \/ filterAndSortNotesThrows(s1)
                 THEN smokeCatch(s1, k)
                 ELSE IF clearTagFilterThrows(s2) THEN smokeCatch(s2, k)
                 ELSE smokeDelete(s2, k, "notes", "t5del")
         [] OTHER ->
              smokeEnd([s EXCEPT !.notes = filterOutId(s.heap, @, req.id)], k, "done")

\* ---------------------------------------------------------------- request completion
\* What the request does to its object store when it succeeds.
applyRequest(recs, req) ==
    CASE req.op = "put" -> storePut(recs, req.item)
      [] req.op = "delete" -> storeDelete(recs, req.id)
      [] OTHER -> recs

\* The continuation of the async function that awaited the request.
resume(s, req, uuid) ==
    CASE req.fn = "saveNote" -> saveNoteResume(s, req.ref)
      [] req.fn = "saveTool" ->
           IF req.call = 0 THEN saveToolResume(s, req.ref)
           ELSE smokeResume(saveToolResume(s, req.ref), req.call, req, uuid)
      [] req.fn = "deleteNote" -> deleteNoteResume(s, req.id)
      [] req.fn = "deleteTool" -> deleteToolResume(s, req.id)
      [] req.fn \in {"importAdd", "importUpdate"} -> importResume(s, req)
      [] OTHER -> smokeResume(s, req.call, req, uuid)

\* The ids that crypto.randomUUID can give in that continuation.
resumeDraw(s, req) ==
    IF req.call # 0 /\ req.fn \notin {"importAdd", "importUpdate"}
    THEN smokeDraw(s, req.call, req) ELSE {0}

\* The awaiting function when the request fails: only handleImportFile catches;
\* saveNote, saveTool, deleteNote, deleteTool and toggleFavorite just reject.
reject(s, req) ==
    IF req.fn \in {"importAdd", "importUpdate"} THEN importCatch(s, req)
    ELSE IF req.call # 0 THEN smokeCatch(s, req.call)
    ELSE s

\* ---------------------------------------------------------------- inputs
\* What the editor's fields hold when saveCurrentNote reads them.
DomInputs ==
    {[title |-> <<>>, content |-> <<>>, tags |-> <<>>],
     [title |-> <<"a">>, content |-> <<"b">>, tags |-> <<"\t", "t", ",">>]}

\* What the tool form's fields hold when saveToolFromModal reads them.
FormInputs ==
    {[name |-> <<VT, "U+00A0">>, url |-> <<"u">>, description |-> <<>>, tags |-> <<>>],
     [name |-> <<"n", " ">>, url |-> <<>>, description |-> <<>>, tags |-> <<>>],
     [name |-> <<"U+00E9", "\n">>, url |-> <<"u">>, description |-> <<>>, tags |-> <<"t">>]}

\* Import candidates: a whole record and one that carries only id and title/name.
FullNote(id) ==
    [id |-> id, title |-> <<"y">>, content |-> <<>>, tags |-> << <<"w">> >>, pinned |-> FALSE,
     archived |-> FALSE, createdAt |-> 0, updatedAt |-> 0]
PartNote(id) == [id |-> id, title |-> <<"z">>]
\* A record of a file that was not written by the application: created after it
\* was last updated.
StaleNote(id) == [FullNote(id) EXCEPT !.createdAt = 1]
FullTool(id) ==
    [id |-> id, name |-> <<"y">>, url |-> <<"u">>, description |-> <<>>, tags |-> <<>>,
     favorite |-> TRUE, createdAt |-> 0, updatedAt |-> 0]
PartTool(id) == [id |-> id, name |-> <<"z">>]

NoteLists == {<<>>, <<FullNote(1)>>, <<PartNote(1)>>, <<FullNote(1), PartNote(1)>>}
ToolLists == {<<>>, <<FullTool(1)>>, <<PartTool(1)>>, <<FullTool(1), PartTool(1)>>}

Snapshots ==
    {[parses |-> TRUE, notes |-> Array(p[1]), tools |-> Array(p[2])] :
        p \in {q \in NoteLists \X ToolLists : Len(q[1]) + Len(q[2]) <= MaxSnapshot}}
    \cup {[parses |-> FALSE, notes |-> Missing, tools |-> Missing],
          [parses |-> TRUE, notes |-> Missing, tools |-> Array(<<>>)],
          [parses |-> TRUE, notes |-> Array(<<>>), tools |-> Missing],
          [parses |-> TRUE, notes |-> Array(<<>>), tools |-> Number],
          [parses |-> TRUE, notes |-> Number, tools |-> Array(<<>>)],
          [parses |-> TRUE, notes |-> Array(<<FullNote(1)>>), tools |-> Number],
          [parses |-> TRUE, notes |-> Array(<<StaleNote(1)>>), tools |-> Array(<<>>)]}

\* The sequences over S of length at most n.
SeqsUpTo(S, n) == UNION {[1..k -> S] : k \in 0..n}

\* ---------------------------------------------------------------- history
NoEv == [type |-> "init", coll |-> "", id |-> 0, ok |-> TRUE, req |-> NoReq,
         result |-> "", data |-> NoData, had |-> NoHad, hadStore |-> NoHad, prev |-> NoData,
         wrote |-> NoneWritten, alert |-> NoNumbers, at |-> 0]
NoSave == [coll |-> "", id |-> 0, item |-> NoObj]
NoQuery == [asked |-> FALSE, mirror |-> <<>>, tag |-> <<>>, search |-> <<>>, sort |-> "",
            out |-> <<>>]
NoQueries == [notes |-> NoQuery, tools |-> NoQuery]

Event(type, c, id, ok) == [NoEv EXCEPT !.type = type, !.coll = c, !.id = id, !.ok = ok]

\* The state after a handler, with the garbage freed.
Commit(s) ==
    /\ now' = s.now
    /\ heap' = Sweep(s)
    /\ notes' = s.notes
    /\ tools' = s.tools
    /\ currentNote' = s.currentNote
    /\ editingTool' = s.editingTool
    /\ toolModalActive' = s.toolModalActive
    /\ isDirty' = s.isDirty
    /\ db' = s.db
    /\ pending' = s.pending
    /\ boot' = s.boot
    /\ imp' = [k \in DOMAIN s.imp |->
                  IF s.imp[k].pc = "idle" THEN [Idle EXCEPT !.prev = s.imp[k].prev]
                  ELSE s.imp[k]]
    /\ activeTagFilter' = s.activeTagFilter
    /\ activeTab' = s.activeTab
    /\ UNCHANGED <<searchQuery, sortBy, queried>>

\* The event of a step; when the step ended an import, its outcome, its snapshot,
\* the index of the candidate it ended at and its history.
Ended(s) == {k \in DOMAIN s.imp : s.imp[k].result # ""}
Outcome(s, e) ==
    IF Ended(s) = {} THEN e
    ELSE LET call == s.imp[CHOOSE k \in Ended(s) : TRUE]
         IN [e EXCEPT !.result = call.result, !.data = call.data, !.had = call.had,
                      !.hadStore = call.hadStore, !.prev = call.prev,
                      !.wrote = call.wrote, !.alert = call.alert, !.at = call.i]

\* Within the bounds: every object has a heap cell and no store has more than
\* MaxPending requests pending.
Bounded(s) ==
    /\ \A k \in DOMAIN s.imp : s.imp[k].pc # "stuck"
    /\ \A k \in 1..Len(s.boot.apps) : s.boot.apps[k].smoke # "stuck"
    /\ \A c \in Collections : Len(s.pending[c]) <= MaxPending

\* The steps that are not a user or timer event: time passing, file.text() resolving
\* and the completion of a store request.
Internal == {"tick", "importRead", "done"}

\* The last confirmed save, for the next state: a save that the store confirms is
\* remembered; any other confirmed write to that collection forgets it.
Remember(e) ==
    IF e.type = "done" /\ e.ok
    THEN IF e.req.fn \in {"saveNote", "saveTool"}
         THEN [coll |-> e.coll, id |-> e.id, item |-> e.req.item]
         ELSE IF e.coll = lastSave.coll THEN NoSave ELSE lastSave
    ELSE lastSave

\* The snapshot of the import that has just succeeded, for the next state: set
\* when an import ends in success with no store request left pending and no other
\* import under way, kept while nothing happens but the next import, forgotten
\* otherwise.
After(s, data) == [s EXCEPT !.imp = [k \in DOMAIN @ |-> [@[k] EXCEPT !.prev = data]]]
Track(s, e) ==
    IF Ended(s) = {}
    THEN IF e.type \in Internal \cup {"importChange"} THEN s ELSE After(s, NoData)
    ELSE LET k == CHOOSE j \in Ended(s) : TRUE
         IN IF /\ s.imp[k].result = "success"
               /\ \A c \in Collections : s.pending[c] = <<>>
               /\ \A j \in DOMAIN s.imp : s.imp[j].pc = "idle"
            THEN After(s, s.imp[k].data)
            ELSE After(s, NoData)

\* A step: the handler's effect s, the event e.
Did(s, e) ==
    /\ Bounded(s)
    /\ e.type \in Internal \/ fuel > 0
    /\ fuel' = IF e.type \in Internal THEN fuel ELSE fuel - 1
    /\ Commit(Track(s, e))
    /\ ev' = Outcome(s, e)
    /\ lastSave' = Remember(e)

\* ---------------------------------------------------------------- queries
\* String.prototype.toLowerCase on the letters A-Z; any other character is kept.
UpperCase == <<"A", "B", "C", "D", "E", "F", "G", "H", "I", "J", "K", "L", "M",
               "N", "O", "P", "Q", "R", "S", "T", "U", "V", "W", "X", "Y", "Z">>
LowerCase == <<"a", "b", "c", "d", "e", "f", "g", "h", "i", "j", "k", "l", "m",
               "n", "o", "p", "q", "r", "s", "t", "u", "v", "w", "x", "y", "z">>
toLowerCase(str) ==
    [i \in 1..Len(str) |->
        IF \E k \in 1..Len(UpperCase) : UpperCase[k] = str[i]
        THEN LowerCase[CHOOSE k \in 1..Len(UpperCase) : UpperCase[k] = str[i]]
        ELSE str[i]]

\* String.prototype.includes: sub occurs in str.
includes(str, sub) ==
    \E i \in 0..(Len(str) - Len(sub)) : SubSeq(str, i + 1, i + Len(sub)) = sub

\* Array.prototype.includes: some element is strictly equal to x.
arrayIncludes(arr, x) == \E i \in 1..Len(arr) : arr[i] = x

\* Array.prototype.filter on an array of references.
RECURSIVE filter(_, _)
filter(arr, keep) ==
    IF arr = <<>> THEN <<>>
    ELSE (IF Head(arr) \in keep THEN <<Head(arr)>> ELSE <<>>) \o filter(Tail(arr), keep)

\* String.prototype.localeCompare in the default collation, on strings of space,
\* comma and letters: the first difference in alphabetical rank decides, a proper
\* prefix comes first, and between strings that differ in letter case only, the
\* first such place decides, lower case first.
Collation == <<" ", ",">> \o LowerCase
rank(ch) == CHOOSE k \in 1..Len(Collation) : Collation[k] = toLowerCase(<<ch>>)[1]
isUpper(ch) == \E k \in 1..Len(UpperCase) : UpperCase[k] = ch
sign(n) == IF n < 0 THEN -1 ELSE IF n > 0 THEN 1 ELSE 0
RECURSIVE comparePrimary(_, _)
comparePrimary(a, b) ==
    IF a = <<>> \/ b = <<>> THEN sign(Len(a) - Len(b))
    ELSE IF rank(Head(a)) # rank(Head(b)) THEN sign(rank(Head(a)) - rank(Head(b)))
    ELSE comparePrimary(Tail(a), Tail(b))
RECURSIVE compareCase(_, _)
compareCase(a, b) ==
    IF a = <<>> \/ b = <<>> THEN 0
    ELSE IF isUpper(Head(a)) # isUpper(Head(b)) THEN (IF isUpper(Head(a)) THEN 1 ELSE -1)
    ELSE compareCase(Tail(a), Tail(b))
localeCompare(a, b) ==
    IF comparePrimary(a, b) # 0 THEN comparePrimary(a, b) ELSE compareCase(a, b)

\* The comparator of filtered.sort in filterAndSortNotes / filterAndSortTools.
compareNotes(sortKey, a, b) ==
    CASE sortKey = "updated-desc" -> b.updatedAt - a.updatedAt
      [] sortKey = "updated-asc" -> a.updatedAt - b.updatedAt
      [] sortKey = "created-desc" -> b.createdAt - a.createdAt
      [] sortKey = "created-asc" -> a.createdAt - b.createdAt
      [] sortKey = "title-asc" -> localeCompare(a.title, b.title)
      [] sortKey = "title-desc" -> localeCompare(b.title, a.title)
      [] OTHER -> 0
compareTools(sortKey, a, b) ==
    CASE sortKey = "updated-desc" -> b.updatedAt - a.updatedAt
      [] sortKey = "updated-asc" -> a.updatedAt - b.updatedAt
      [] sortKey = "created-desc" -> b.createdAt - a.createdAt
      [] sortKey = "created-asc" -> a.createdAt - b.createdAt
      [] sortKey = "name-asc" -> localeCompare(a.name, b.name)
      [] sortKey = "name-desc" -> localeCompare(b.name, a.name)
      [] OTHER -> 0
compare(c, sortKey, a, b) ==
    IF c = "notes" THEN compareNotes(sortKey, a, b) ELSE compareTools(sortKey, a, b)

\* A sort that is not stable: each element goes before the ones already placed
\* that compare equal to it.
RECURSIVE sortBeforeEquals(_, _, _, _)
sortBeforeEquals(h, arr, c, sortKey) ==
    IF arr = <<>> THEN <<>>
    ELSE LET done == sortBeforeEquals(h, SubSeq(arr, 1, Len(arr) - 1), c, sortKey)
             x == arr[Len(arr)]
             lt == {j \in 1..Len(done) : compare(c, sortKey, h[done[j]], h[x]) < 0}
             k == IF lt = {} THEN 0 ELSE CHOOSE j \in lt : \A i \in lt : i <= j
         IN SubSeq(done, 1, k) \o <<x>> \o SubSeq(done, k + 1, Len(done))

\* Array.prototype.sort, which is stable: each element goes behind the last one
\* already placed that does not compare greater than it.
RECURSIVE sort(_, _, _, _)
sort(h, arr, c, sortKey) ==
    IF arr = <<>> THEN <<>>
    ELSE LET done == sort(h, SubSeq(arr, 1, Len(arr) - 1), c, sortKey)
             x == arr[Len(arr)]
             le == {j \in 1..Len(done) : compare(c, sortKey, h[done[j]], h[x]) <= 0}
             k == IF le = {} THEN 0 ELSE CHOOSE j \in le : \A i \in le : i <= j
         IN SubSeq(done, 1, k) \o <<x>> \o SubSeq(done, k + 1, Len(done))

\* A tag filter that ignores letter case.
tagFilterAnyCase(h, arr, tag) ==
    IF tag # <<>>
    THEN filter(arr, {r \in Range(arr) :
            \E i \in 1..Len(h[r].tags) : toLowerCase(h[r].tags[i]) = toLowerCase(tag)})
    ELSE arr

\* The tag filter step: note.tags.includes(state.activeTagFilter).
tagFilter(h, arr, tag) ==
    IF tag # <<>> THEN filter(arr, {r \in Range(arr) : arrayIncludes(h[r].tags, tag)})
    ELSE arr

\* The search filter step.
someTag(tags, query) == \E i \in 1..Len(tags) : includes(toLowerCase(tags[i]), query)
\* A search that does not lower the case of the text typed.
searchNotesAsTyped(h, arr, text) ==
    IF text # <<>>
    THEN filter(arr, {r \in Range(arr) :
            \/ includes(toLowerCase(h[r].title), text)
            \/ includes(toLowerCase(h[r].content), text)
            \/ someTag(h[r].tags, text)})
    ELSE arr
searchNotes(h, arr, text) ==
    LET query == toLowerCase(text)
    IN IF query # <<>>
       THEN filter(arr, {r \in Range(arr) :
                \/ includes(toLowerCase(h[r].title), query)
                \/ includes(toLowerCase(h[r].content), query)
                \/ someTag(h[r].tags, query)})
       ELSE arr
searchTools(h, arr, text) ==
    LET query == toLowerCase(text)
    IN IF query # <<>>
       THEN filter(arr, {r \in Range(arr) :
                \/ includes(toLowerCase(h[r].name), query)
                \/ includes(toLowerCase(h[r].description), query)
                \/ includes(toLowerCase(h[r].url), query)
                \/ someTag(h[r].tags, query)})
       ELSE arr

\* No partition: the sorted array as it is.
pinnedWhereSorted(h, arr) == arr

\* A partition that is not stable: the pinned notes on top, the others behind
\* them in reverse.
pinnedFirstOthersReversed(h, arr) ==
    LET others == filter(arr, {r \in Range(arr) : ~h[r].pinned})
    IN filter(arr, {r \in Range(arr) : h[r].pinned})
           \o [i \in 1..Len(others) |-> others[Len(others) + 1 - i]]

\* Pinned notes / favorite tools on top.
pinnedFirst(h, arr) ==
    filter(arr, {r \in Range(arr) : h[r].pinned})
        \o filter(arr, {r \in Range(arr) : ~h[r].pinned})
favoritesFirst(h, arr) ==
    filter(arr, {r \in Range(arr) : h[r].favorite})
        \o filter(arr, {r \in Range(arr) : ~h[r].favorite})

\* The program's variables that a query reads or could write.
QCur ==
    [heap |-> heap, notes |-> notes, tools |-> tools, db |-> db,
     activeTagFilter |-> activeTagFilter, activeTab |-> activeTab,
     searchQuery |-> searchQuery, sortBy |-> sortBy, queried |-> queried]

\* filterAndSortNotes / filterAndSortTools: the array returned (out) and the state
\* the call leaves. The call works on a copy of the mirror array,
\* [...state.notes]: filter, sort and the final partition leave state alone.
\* (Without the copy, filtered = state.notes, the sort would reorder the mirror
\* whenever no filter had made a new array: filterAndSortNotesInPlace.)
filterAndSortNotesInPlace(s) ==
    LET tagged == tagFilter(s.heap, s.notes, s.activeTagFilter)
        found == searchNotes(s.heap, tagged, s.searchQuery.notes)
        sorted == sort(s.heap, found, "notes", s.sortBy.notes)
        aliased == s.activeTagFilter = <<>> /\ toLowerCase(s.searchQuery.notes) = <<>>
    IN [state |-> IF aliased THEN [s EXCEPT !.notes = sorted] ELSE s,
        out |-> pinnedFirst(s.heap, sorted)]
filterAndSortNotes(s) ==
    LET filtered == s.notes
        tagged == tagFilter(s.heap, filtered, s.activeTagFilter)
        found == searchNotes(s.heap, tagged, s.searchQuery.notes)
        sorted == sort(s.heap, found, "notes", s.sortBy.notes)
    IN [state |-> s, out |-> pinnedFirst(s.heap, sorted)]
filterAndSortTools(s) ==
    LET filtered == s.tools
        tagged == tagFilter(s.heap, filtered, s.activeTagFilter)
        found == searchTools(s.heap, tagged, s.searchQuery.tools)
        sorted == sort(s.heap, found, "tools", s.sortBy.tools)
    IN [state |-> s, out |-> favoritesFirst(s.heap, sorted)]

\* What a call was asked and what it returned.
Asked(s, c, out) ==
    [asked |-> TRUE, mirror |-> MirrorView(s, c), tag |-> s.activeTagFilter,
     search |-> s.searchQuery[c], sort |-> s.sortBy[c], out |-> Deref(s.heap, out)]

\* renderNotesList / renderToolsGrid: the list shown is what the query returns.
renderNotesList(s) ==
    LET r == filterAndSortNotes(s)
    IN [r.state EXCEPT !.queried.notes = Asked(s, "notes", r.out)]
renderToolsGrid(s) ==
    LET r == filterAndSortTools(s)
    IN [r.state EXCEPT !.queried.tools = Asked(s, "tools", r.out)]
render(s, c) == IF c = "notes" THEN renderNotesList(s) ELSE renderToolsGrid(s)

\* setTagFilter / clearTagFilter (a null filter is <<>>): only the list of the
\* active tab is rendered again.
setTagFilter(s, tag) == render([s EXCEPT !.activeTagFilter = tag], s.activeTab)

\* switchTab.
switchTab(s, tabName) == [s EXCEPT !.activeTab = tabName]

\* ---------------------------------------------------------------- initial state
\* A first visit: both object stores empty, initApp has loaded the (empty) mirrors.
FreshApp(database) ==
    /\ now = 0
    /\ heap = [r \in Refs |-> NoObj]
    /\ notes = <<>>
    /\ tools = <<>>
    /\ currentNote = Null
    /\ editingTool = Null
    /\ toolModalActive = FALSE
    /\ isDirty = FALSE
    /\ db = database
    /\ pending = [notes |-> <<>>, tools |-> <<>>]
    /\ imp = NoImport
    /\ activeTagFilter = <<>>
    /\ activeTab = "notes"
    /\ searchQuery = [notes |-> <<>>, tools |-> <<>>]
    /\ sortBy = [notes |-> "updated-desc", tools |-> "updated-desc"]
    /\ queried = NoQueries
    /\ ev = NoEv
    /\ lastSave = NoSave

Start == FreshApp([notes |-> <<>>, tools |-> <<>>]) /\ boot = Booted

Init == Start /\ fuel = MaxOps

\* ---------------------------------------------------------------- actions
\* Time passes.
Tick ==
    /\ now < MaxTime
    /\ Did([Cur EXCEPT !.now = now + 1], Event("tick", "", 0, TRUE))

\* The listener of #new-note-btn: createNote, push, saveNote, selectNote.
newNote(s, id, dom) ==
    LET note == alloc(s)
        s1 == [s EXCEPT !.heap[note] = createNote(s, id)]
        s2 == [s1 EXCEPT !.notes = Append(@, note)]
        s3 == saveNote(s2, note)
    IN selectNote(s3, id, dom)

\* #new-note-btn click.
NewNoteClick(id, dom) ==
    /\ id \in randomUUID(Cur)
    /\ FreeRefs(Cur) # {}
    /\ Did(newNote(Cur, id, dom), Event("newNote", "notes", id, TRUE))

\* input on #note-title, #note-content or #note-tags (the editor is shown).
NoteInput ==
    /\ currentNote # Null
    /\ Did([Cur EXCEPT !.isDirty = TRUE], Event("input", "notes", 0, TRUE))

\* Ctrl/Cmd+S.
CtrlS(dom) ==
    /\ currentNote # Null /\ isDirty
    /\ Did(saveCurrentNote(Cur, dom), Event("ctrlS", "notes", heap[currentNote].id, TRUE))

\* The autosave interval timer fires.
AutosaveTick(dom) ==
    /\ currentNote # Null /\ isDirty
    /\ LET s1 == saveCurrentNote(Cur, dom)
       IN Did([s1 EXCEPT !.pending.notes[Len(s1.pending.notes)].via = "autosave"],
              Event("autosave", "notes", heap[currentNote].id, TRUE))

\* click on a note of the rendered list.
SelectNoteClick(id, dom) ==
    /\ id \in IdsOf(MirrorView(Cur, "notes"))
    /\ Did(selectNote(Cur, id, dom), Event("selectNote", "notes", id, TRUE))

\* #pin-note-btn click.
PinClick ==
    /\ currentNote # Null
    /\ LET o == heap[currentNote]
           s1 == [Cur EXCEPT !.heap[currentNote] =
                      SetField(o, "pinned", ~(Has(o, "pinned") /\ o.pinned))]
       IN Did(saveNote(s1, currentNote), Event("pin", "notes", o.id, TRUE))

\* #archive-note-btn click.
ArchiveClick ==
    /\ currentNote # Null
    /\ LET o == heap[currentNote]
           s1 == [Cur EXCEPT !.heap[currentNote] =
                      SetField(o, "archived", ~(Has(o, "archived") /\ o.archived))]
       IN Did(saveNote(s1, currentNote), Event("archive", "notes", o.id, TRUE))

\* #delete-note-btn click; the confirm dialog is accepted or dismissed.
DeleteNoteClick(confirmed) ==
    /\ currentNote # Null
    /\ LET id == heap[currentNote].id
       IN Did(IF confirmed THEN deleteNote(Cur, id) ELSE Cur,
              Event("deleteNote", "notes", id, confirmed))

\* #new-tool-btn click: showToolModal() with a new tool.
NewToolClick(id) ==
    /\ id \in randomUUID(Cur)
    /\ FreeRefs(Cur) # {}
    /\ LET tool == alloc(Cur)
           s1 == [Cur EXCEPT !.heap[tool] = createTool(Cur, id)]
       IN Did(showToolModal(s1, tool), Event("newTool", "tools", id, TRUE))

\* .edit-tool-btn click: editTool(id).
EditToolClick(id) ==
    /\ id \in IdsOf(MirrorView(Cur, "tools"))
    /\ Did(showToolModal(Cur, find(heap, tools, id)), Event("editTool", "tools", id, TRUE))

\* #cancel-tool-btn click.
CancelToolClick ==
    /\ toolModalActive
    /\ Did(hideToolModal(Cur), Event("cancelTool", "tools", 0, TRUE))

\* .close-modal click, or a click outside the modal: only the class goes.
CloseModalClick ==
    /\ toolModalActive
    /\ Did([Cur EXCEPT !.toolModalActive = FALSE], Event("closeModal", "tools", 0, TRUE))

\* #save-tool-btn click.
SaveToolClick(form) ==
    /\ toolModalActive
    /\ Did(saveToolFromModal(Cur, form),
           Event("saveToolFromModal", "tools", heap[editingTool].id,
                 trim(form.name) # <<>> /\ trim(form.url) # <<>>))

\* toggleFavorite(id), from a .favorite-btn click or called directly.
ToggleFavorite(id) ==
    /\ id \in Ids
    /\ Did(toggleFavorite(Cur, id),
           Event("toggleFavorite", "tools", id, find(heap, tools, id) # Null))

\* deleteTool(id), from a .delete-tool-btn click or called directly; the confirm
\* dialog is accepted or dismissed.
DeleteTool(id, confirmed) ==
    /\ id \in Ids
    /\ Did(IF confirmed THEN deleteTool(Cur, id) ELSE Cur,
           Event("deleteTool", "tools", id, confirmed))

\* change on #import-file-input: a new call of handleImportFile, up to await
\* file.text().  Other calls may be under way.
FreeImports == {k \in Imports : imp[k].pc = "idle"}
ImportChange(data) ==
    /\ FreeImports # {}
    /\ LET k == CHOOSE j \in FreeImports : \A i \in FreeImports : j <= i
       IN Did([Cur EXCEPT !.imp[k] = [Idle EXCEPT !.pc = "reading", !.data = data,
                                                  !.prev = imp[k].prev]],
              Event("importChange", "", 0, TRUE))

\* The files the user chooses: any snapshot when no import is under way, a
\* snapshot of one record while another import is under way.
Overlapping ==
    {[parses |-> TRUE, notes |-> Array(<<FullNote(1)>>), tools |-> Array(<<>>)],
     [parses |-> TRUE, notes |-> Array(<<PartNote(1)>>), tools |-> Array(<<>>)],
     [parses |-> TRUE, notes |-> Array(<<>>), tools |-> Array(<<FullTool(1)>>)]}
Files == IF FreeImports = Imports THEN Snapshots ELSE Overlapping

\* file.text() of call k has resolved.
ImportRead(k) ==
    /\ imp[k].pc = "reading"
    /\ Did(handleImportFileRead(Cur, k), Event("importRead", "", 0, TRUE))

\* The oldest pending request of an object store succeeds: the store changes, the
\* promise resolves and the awaiting function runs on.
RequestSuccess(c) ==
    /\ pending[c] # <<>>
    /\ LET req == Head(pending[c])
           s1 == [Cur EXCEPT !.pending[c] = Tail(@), !.db[c] = applyRequest(@, req)]
       IN \E uuid \in resumeDraw(s1, req) :
              Did(resume(s1, req, uuid), [Event("done", c, req.id, TRUE) EXCEPT !.req = req])

\* The oldest pending request of an object store fails (quota, I/O): the promise
\* rejects.
RequestError(c) ==
    /\ pending[c] # <<>>
    /\ LET req == Head(pending[c])
           s1 == [Cur EXCEPT !.pending[c] = Tail(@)]
       IN Did(reject(s1, req), [Event("done", c, req.id, FALSE) EXCEPT !.req = req])

Next ==
    \/ Tick
    \/ \E id \in Ids, dom \in DomInputs : NewNoteClick(id, dom)
    \/ NoteInput
    \/ \E dom \in DomInputs : CtrlS(dom)
    \/ \E dom \in DomInputs : AutosaveTick(dom)
    \/ \E id \in Ids, dom \in DomInputs : SelectNoteClick(id, dom)
    \/ PinClick
    \/ ArchiveClick
    \/ \E confirmed \in BOOLEAN : DeleteNoteClick(confirmed)
    \/ \E id \in Ids : NewToolClick(id)
    \/ \E id \in Ids : EditToolClick(id)
    \/ CancelToolClick
    \/ CloseModalClick
    \/ \E form \in FormInputs : SaveToolClick(form)
    \/ \E id \in Ids : ToggleFavorite(id)
    \/ \E id \in Ids, confirmed \in BOOLEAN : DeleteTool(id, confirmed)
    \/ \E data \in Snapshots : data \in Files /\ ImportChange(data)
    \/ \E k \in Imports : ImportRead(k)
    \/ \E c \in Collections : RequestSuccess(c)
    \/ \E c \in Collections : RequestError(c)

Spec == Init /\ [][Next]_vars

\* ---------------------------------------------------------------- query session
\* Mirror contents for the queries: records that differ in what the tag filter, the
\* search, each sort key and the partition look at.
QNotes ==
    {[title |-> <<"a">>, content |-> <<>>, tags |-> << <<"t">> >>, pinned |-> FALSE,
      archived |-> FALSE, createdAt |-> 1, updatedAt |-> 0],
     [title |-> <<"B">>, content |-> <<"b", "A">>, tags |-> << <<"T">> >>, pinned |-> TRUE,
      archived |-> FALSE, createdAt |-> 0, updatedAt |-> 1],
     [title |-> <<"b">>, content |-> <<>>, tags |-> << <<"A", "b">>, <<"t">> >>,
      pinned |-> FALSE, archived |-> FALSE, createdAt |-> 0, updatedAt |-> 0],
     [title |-> <<"B">>, content |-> <<"b">>, tags |-> <<>>, pinned |-> TRUE,
      archived |-> FALSE, createdAt |-> 1, updatedAt |-> 1]}
QTools ==
    {[name |-> <<"a">>, url |-> <<"u">>, description |-> <<>>, tags |-> << <<"t">> >>,
      favorite |-> FALSE, createdAt |-> 1, updatedAt |-> 0],
     [name |-> <<"B">>, url |-> <<"u">>, description |-> <<"b", "A">>,
      tags |-> << <<"T">> >>, favorite |-> TRUE, createdAt |-> 0, updatedAt |-> 1],
     [name |-> <<"b">>, url |-> <<"A">>, description |-> <<>>, tags |-> << <<"t">> >>,
      favorite |-> FALSE, createdAt |-> 0, updatedAt |-> 0],
     [name |-> <<"B">>, url |-> <<"u">>, description |-> <<>>, tags |-> << <<"A", "b">> >>,
      favorite |-> TRUE, createdAt |-> 1, updatedAt |-> 1]}
QMaxLen == 2
QTags == {<<"t">>}
QSearches == {<<"A">>}
NoteSortKeys ==
    {"updated-desc", "updated-asc", "created-desc", "created-asc", "title-asc", "title-desc"}
ToolSortKeys ==
    {"updated-desc", "updated-asc", "created-desc", "created-asc", "name-asc", "name-desc"}
\* The value of a sort box in which no option is selected: no case of the switch.
UnmatchedKey == ""
SortKeys(c) == (IF c = "notes" THEN NoteSortKeys ELSE ToolSortKeys) \cup {UnmatchedKey}

\* The record of the i-th cell: the template with id i.
WithId(o, i) == [f \in DOMAIN o \cup {"id"} |-> IF f = "id" THEN i ELSE o[f]]

\* A later visit: one collection holds the records recs, loaded by initApp from
\* the store in id order.
QStart(c, recs) ==
    /\ now = MaxTime
    /\ heap = [r \in Refs |-> IF r <= Len(recs) THEN WithId(recs[r], r) ELSE NoObj]
    /\ notes = IF c = "notes" THEN [i \in 1..Len(recs) |-> i] ELSE <<>>
    /\ tools = IF c = "tools" THEN [i \in 1..Len(recs) |-> i] ELSE <<>>
    /\ currentNote = Null
    /\ editingTool = Null
    /\ toolModalActive = FALSE
    /\ isDirty = FALSE
    /\ db = [d \in Collections |->
                IF d = c THEN [i \in 1..Len(recs) |-> WithId(recs[i], i)] ELSE <<>>]
    /\ pending = [notes |-> <<>>, tools |-> <<>>]
    /\ imp = NoImport
    /\ activeTagFilter = <<>>
    /\ activeTab = "notes"
    /\ searchQuery = [notes |-> <<>>, tools |-> <<>>]
    /\ sortBy = [notes |-> "updated-desc", tools |-> "updated-desc"]
    /\ queried = NoQueries
    /\ ev = NoEv
    /\ lastSave = NoSave
    /\ fuel = 0
    /\ boot = Booted

\* The mirrors of MaxObjs records in which two different records that agree in
\* the flag f (pinned, favorite) have between them only records of the other
\* value: those the partition has to reorder with two records in one group.
QMixed(recs, f) ==
    {m \in [1..MaxObjs -> recs] :
        /\ m[1] # m[MaxObjs] /\ m[1][f] = m[MaxObjs][f]
        /\ \A k \in 2..(MaxObjs - 1) : m[k][f] # m[1][f]}

QInit ==
    \/ \E recs \in SeqsUpTo(QNotes, QMaxLen) \cup QMixed(QNotes, "pinned") :
           QStart("notes", recs)
    \/ \E recs \in SeqsUpTo(QTools, QMaxLen) \cup QMixed(QTools, "favorite") :
           QStart("tools", recs)

\* The state after a handler that only queries.
QDid(s, e) ==
    /\ heap' = s.heap
    /\ notes' = s.notes
    /\ tools' = s.tools
    /\ db' = s.db
    /\ activeTagFilter' = s.activeTagFilter
    /\ activeTab' = s.activeTab
    /\ searchQuery' = s.searchQuery
    /\ sortBy' = s.sortBy
    /\ queried' = s.queried
    /\ ev' = e
    /\ UNCHANGED <<now, currentNote, editingTool, toolModalActive, isDirty, pending, imp,
                   fuel, lastSave, boot>>

\* click on a tag of the tag bar: setTagFilter(tag).
TagClick(tag) ==
    /\ tag # <<>>
    /\ QDid(setTagFilter(QCur, tag), Event("setTagFilter", activeTab, 0, TRUE))

\* click on the clear button of the tag bar: clearTagFilter().
ClearTagClick ==
    /\ activeTagFilter # <<>>
    /\ QDid(setTagFilter(QCur, <<>>), Event("clearTagFilter", activeTab, 0, TRUE))

\* input on #notes-search / #tools-search.
SearchInput(c, text) ==
    /\ text # searchQuery[c]
    /\ QDid(render([QCur EXCEPT !.searchQuery[c] = text], c), Event("search", c, 0, TRUE))

\* change on #notes-sort / #tools-sort.
SortChange(c, sortKey) ==
    /\ sortKey # sortBy[c]
    /\ QDid(render([QCur EXCEPT !.sortBy[c] = sortKey], c), Event("sort", c, 0, TRUE))

\* click on a tab: switchTab.
TabClick(tabName) ==
    /\ tabName # activeTab
    /\ QDid(switchTab(QCur, tabName), Event("switchTab", tabName, 0, TRUE))

QNext ==
    \/ \E tag \in QTags : TagClick(tag)
    \/ ClearTagClick
    \/ \E c \in Collections, text \in QSearches \cup {<<>>} : SearchInput(c, text)
    \/ \E c \in Collections : \E sortKey \in SortKeys(c) : SortChange(c, sortKey)
    \/ \E tabName \in Collections : TabClick(tabName)

QuerySpec == QInit /\ [][QNext]_vars

\* ---------------------------------------------------------------- a longer notes session
\* One note and one import file, with more events than Spec allows: the note is
\* created, edited, pinned, deleted and selected while a file that carries a
\* record of the same id is imported; every store request succeeds.
RaceOps == 8
RaceDom == [title |-> <<"a">>, content |-> <<>>, tags |-> <<>>]
RaceData ==
    {[parses |-> TRUE, notes |-> Array(<<FullNote(1)>>), tools |-> Array(<<>>)],
     [parses |-> TRUE, notes |-> Array(<<FullNote(1), PartNote(1)>>), tools |-> Array(<<>>)]}

RaceInit == Start /\ fuel = RaceOps

RaceNext ==
    \/ NewNoteClick(1, RaceDom)
    \/ NoteInput
    \/ CtrlS(RaceDom)
    \/ SelectNoteClick(1, RaceDom)
    \/ PinClick
    \/ DeleteNoteClick(TRUE)
    \/ \E data \in RaceData : ImportChange(data)
    \/ \E k \in Imports : ImportRead(k)
    \/ RequestSuccess("notes")

RaceSpec == RaceInit /\ [][RaceNext]_vars

\* ---------------------------------------------------------------- the page load, step by step
\* A step of the page load: the application state s, the page b, the event e.
BootDid(s, b, e) ==
    /\ Bounded(s)
    /\ Commit([s EXCEPT !.boot = b])
    /\ ev' = e
    /\ fuel' = IF e.type = "newNoteButton" THEN fuel - 1 ELSE fuel
    /\ UNCHANGED lastSave

BootEvent(type) == Event(type, "", 0, TRUE)

\* The script of the auth module has run: window.authModule is set.
ModuleLoads ==
    /\ ~boot.module
    /\ BootDid(Cur, [boot EXCEPT !.module = TRUE], BootEvent("moduleLoads"))

\* init(): one more timeout of the waiting loop.
InitRetry ==
    /\ boot.pc = "waiting" /\ ~boot.module /\ boot.retries < MaxRetries
    /\ BootDid(Cur, [boot EXCEPT !.retries = @ + 1], BootEvent("initRetry"))

\* init(): the loop has ended without window.authModule.
InitGiveUp ==
    /\ boot.pc = "waiting" /\ ~boot.module /\ boot.retries = MaxRetries
    /\ BootDid(Cur, [boot EXCEPT !.pc = "noModule"], BootEvent("initGiveUp"))

\* init(): window.authModule is there.
InitProceed ==
    /\ boot.pc = "waiting" /\ boot.module
    /\ BootDid(Cur, initProceed(boot), BootEvent("initProceed"))

\* exchangeSessionId has settled.
ExchangeSettles(result) ==
    /\ boot.pc = "exchanging"
    /\ BootDid(Cur, handleAuthCallback(boot, result), BootEvent("exchange"))

\* getCurrentUser has settled.
CurrentUserSettles(user) ==
    /\ boot.pc = "checking"
    /\ BootDid(Cur, checkExistingAuth(boot, user), BootEvent("currentUser"))

\* The timeout that follows a failed callback: showLoginScreen.
LoginScreenTimer ==
    /\ boot.screen = "error"
    /\ BootDid(Cur, [boot EXCEPT !.screen = "login"], BootEvent("loginScreen"))

\* The k-th initApp call runs on after the request it awaited has succeeded:
\* initDB followed by loadSettings, then loadNotes, then loadTools followed by
\* setupAutosave, updateUserUI, the registration of the listeners and
\* runSmokeTests up to its first await.  loadSettings throws after its
\* assignment when there are stored settings and the elements it updates are
\* gone; the renders throw when the application's elements are gone; initApp
\* catches that.
AppStep(k) ==
    /\ k \in 1..Len(boot.apps)
    /\ LET pc == boot.apps[k].pc
           s1 == IF pc = "loadNotes" THEN loadNotes(Cur)
                 ELSE IF pc = "loadTools" THEN loadTools(Cur) ELSE Cur
           throws == \/ pc = "loadNotes" /\ renderNotesListThrows(s1)
                     \/ pc = "loadTools" /\ renderToolsGridThrows(s1)
           b1 == CASE pc = "initDB" ->
                        [loadSettings(boot) EXCEPT !.apps[k].pc =
                            IF boot.stored # NoSettings /\ boot.screen # "app"
                            THEN "failed" ELSE "loadNotes"]
                   [] pc = "loadNotes" ->
                        [boot EXCEPT !.apps[k].pc = IF throws THEN "failed" ELSE "loadTools"]
                   [] pc = "loadTools" ->
                        IF throws THEN [boot EXCEPT !.apps[k].pc = "failed"]
                        ELSE [setupAutosave(boot) EXCEPT !.apps[k].pc = "ready",
                                                         !.listeners = @ + 1]
           s2 == [s1 EXCEPT !.boot = b1]
       IN /\ pc \in {"initDB", "loadNotes", "loadTools"}
          /\ pc = "loadNotes" => CanLoad(Cur, "notes")
          /\ pc = "loadTools" => CanLoad(Cur, "tools")
          /\ \E uuid \in IF b1.apps[k].pc = "ready" THEN smokeUUID(s2) ELSE {0} :
                 LET s3 == IF b1.apps[k].pc = "ready" THEN smokeStart(s2, k, uuid) ELSE s2
                 IN BootDid(s3, s3.boot, BootEvent("appStep"))

\* The request that the k-th initApp call awaited has failed: its catch block.
AppError(k) ==
    /\ k \in 1..Len(boot.apps)
    /\ boot.apps[k].pc \in {"initDB", "loadNotes", "loadTools"}
    /\ BootDid(Cur, [boot EXCEPT !.apps[k].pc = "failed"], BootEvent("appError"))

\* One click on #new-note-btn: every registered listener runs.  uuids lists
\* what crypto.randomUUID gives to each listener in turn.
RECURSIVE clickNewNote(_, _, _)
clickNewNote(s, uuids, dom) ==
    IF uuids = <<>> THEN s
    ELSE clickNewNote(newNote(s, Head(uuids), dom), Tail(uuids), dom)
\* The distinct ids that n calls of crypto.randomUUID can give, in every order.
Draws(free, n) ==
    {u \in [1..n -> free] : \A i, j \in 1..n : i # j => u[i] # u[j]}
NewNoteButton ==
    /\ fuel > 0
    /\ boot.screen = "app" /\ boot.listeners > 0
    /\ Cardinality(FreeRefs(Cur)) >= boot.listeners
    /\ \E uuids \in Draws(randomUUID(Cur), boot.listeners) :
           LET s1 == clickNewNote(Cur, uuids, RaceDom)
           IN BootDid(s1, [boot EXCEPT !.made = Len(s1.notes) - Len(notes)],
                      BootEvent("newNoteButton"))

\* The writes to localStorage of one event, one per registered listener, each
\* succeeding or throwing on its own.
Saves == [1..boot.listeners -> BOOLEAN]

\* change on #autosave-interval: every registered listener runs.
AutosaveChange(value, saves) ==
    /\ boot.screen = "app" /\ boot.listeners > 0
    /\ Len(saves) = boot.listeners
    /\ boot.nextTimer + boot.listeners <= MaxTimers + 1
    /\ BootDid(Cur, changeAll(boot, value, saves),
               Event("autosaveChange", "", 0, \A k \in 1..Len(saves) : saves[k]))

\* click on #theme-toggle: every registered listener runs.
ThemeToggleClick(saves) ==
    /\ boot.screen = "app" /\ boot.listeners > 0
    /\ Len(saves) = boot.listeners
    /\ BootDid(Cur, toggleAll(boot, saves),
               Event("themeToggle", "", 0, \A k \in 1..Len(saves) : saves[k]))

\* click on #logout-btn (there once updateUserUI has run): logoutUser up to its
\* fetch, whether or not an earlier call's request is still pending.
LogoutClick ==
    /\ boot.screen = "app" /\ boot.logout < MaxLogouts
    /\ \E k \in 1..Len(boot.apps) : boot.apps[k].pc = "ready"
    /\ BootDid(Cur, [boot EXCEPT !.logout = @ + 1], BootEvent("logoutClick"))

\* One of the pending logout requests has settled.
LogoutSettles(ok) ==
    /\ boot.logout > 0
    /\ BootDid(Cur, logoutUser(boot, ok), Event("logout", "", 0, ok))

\* A first page load: with or without a session_id in the URL, the auth
\* module's script already run or not, the stores empty, localStorage without
\* settings.  Every request succeeds or fails; the user may log out, also
\* while an earlier logout request is pending.
AuthInit ==
    /\ FreshApp([notes |-> <<>>, tools |-> <<>>])
    /\ fuel = 0
    /\ boot \in {PageLoad(h, m) : h \in BOOLEAN, m \in BOOLEAN}

AuthNext ==
    \/ ModuleLoads
    \/ InitRetry
    \/ InitGiveUp
    \/ InitProceed
    \/ \E result \in {"ok", "nouser", "fail"} : ExchangeSettles(result)
    \/ \E user \in {SomeUser, NoUser, FalsyUser} : CurrentUserSettles(user)
    \/ LoginScreenTimer
    \/ \E k \in 1..2 : AppStep(k)
    \/ \E k \in 1..2 : AppError(k)
    \/ LogoutClick
    \/ \E ok \in BOOLEAN : LogoutSettles(ok)
    \/ \E c \in Collections : RequestSuccess(c)
    \/ \E c \in Collections : RequestError(c)

AuthSpec == AuthInit /\ [][AuthNext]_vars

\* A later visit: the same page load with the session cookie, the notes store
\* holding a note of an earlier visit.
VisitInit ==
    /\ FreshApp([notes |-> <<FullNote(1)>>, tools |-> <<>>])
    /\ fuel = 0
    /\ boot = PageLoad(FALSE, TRUE)

VisitNext ==
    \/ InitProceed
    \/ \E user \in {SomeUser, NoUser, FalsyUser} : CurrentUserSettles(user)
    \/ \E k \in 1..2 : AppStep(k)
    \/ \E k \in 1..2 : AppError(k)
    \/ LogoutClick
    \/ \E ok \in BOOLEAN : LogoutSettles(ok)
    \/ \E c \in Collections : RequestSuccess(c)
    \/ \E c \in Collections : RequestError(c)

VisitSpec == VisitInit /\ [][VisitNext]_vars

\* ---------------------------------------------------------------- the new-note button
\* A page load, with the auth module's script already run, in which the user
\* clicks #new-note-btn up to ClickOps times; every request succeeds.
ClickOps == 2
ClickInit ==
    /\ FreshApp([notes |-> <<>>, tools |-> <<>>])
    /\ fuel = ClickOps
    /\ boot \in {PageLoad(h, TRUE) : h \in BOOLEAN}

ClickNext ==
    \/ InitProceed
    \/ \E result \in {"ok", "nouser", "fail"} : ExchangeSettles(result)
    \/ \E user \in {SomeUser, NoUser, FalsyUser} : CurrentUserSettles(user)
    \/ LoginScreenTimer
    \/ \E k \in 1..2 : AppStep(k)
    \/ \E k \in 1..2 : AppError(k)
    \/ NewNoteButton
    \/ \E c \in Collections : RequestSuccess(c)

ClickSpec == ClickInit /\ [][ClickNext]_vars

\* ---------------------------------------------------------------- the autosave setting
\* A page load in which the user changes the autosave interval and the theme;
\* each write of the settings to localStorage succeeds or throws.  (The requests
\* of runSmokeTests stay pending.)
SettingsNext ==
    \/ ModuleLoads
    \/ InitRetry
    \/ InitGiveUp
    \/ InitProceed
    \/ \E result \in {"ok", "nouser", "fail"} : ExchangeSettles(result)
    \/ \E user \in {SomeUser, NoUser, FalsyUser} : CurrentUserSettles(user)
    \/ LoginScreenTimer
    \/ \E k \in 1..2 : AppStep(k)
    \/ \E k \in 1..2 : AppError(k)
    \/ \E value \in Intervals, saves \in Saves : AutosaveChange(value, saves)
    \/ \E saves \in Saves : ThemeToggleClick(saves)
    \/ LogoutClick
    \/ \E ok \in BOOLEAN : LogoutSettles(ok)

\* The page loads with empty stores; localStorage holds no settings, or those of
\* an earlier visit.
SettingsInit ==
    /\ FreshApp([notes |-> <<>>, tools |-> <<>>])
    /\ fuel = 0
    /\ boot \in {[PageLoad(h, m) EXCEPT !.stored = st] :
                    h \in BOOLEAN, m \in BOOLEAN,
                    st \in {NoSettings, [theme |-> "dark", autosaveInterval |-> AutosaveOff]}}

SettingsSpec == SettingsInit /\ [][SettingsNext]_vars

\* ---------------------------------------------------------------- a note under the timer
\* One note is created and edited while the autosave timer runs; store requests
\* succeed or fail.
RetryOps == 5

RetryInit == Start /\ fuel = RetryOps

RetryNext ==
    \/ Tick
    \/ \E dom \in DomInputs : NewNoteClick(1, dom)
    \/ NoteInput
    \/ \E dom \in DomInputs : AutosaveTick(dom)
    \/ RequestSuccess("notes")
    \/ RequestError("notes")

RetrySpec == RetryInit /\ [][RetryNext]_vars

\* ---------------------------------------------------------------- properties
MirrorNow(c) == MirrorView(Cur, c)
MirrorIds(c) == IdsOf(MirrorNow(c))
Completed(op) == ev.type = "done" /\ ev.req.op = op
Succeeded(op) == Completed(op) /\ ev.ok

\* C1: when the store write of saveNote, saveTool, toggleFavorite or of an import
\* upsert fails, the mirror is exactly as it was when the operation started: the
\* same records in the same order with the same field values.  (Stated for an
\* operation that had the store to itself from its start to its failure, so that
\* no other operation can account for a difference.)
C1_FailedWriteLeavesMirror ==
    (/\ Completed("put") /\ ~ev.ok
     /\ ev.req.solo
     /\ pending[ev.coll] = <<>>)
        => MirrorNow(ev.coll) = ev.req.before

\* C2: no step makes a record visible in a mirror before its store write has
\* completed: an id that a step adds to a mirror is then in the store.
C2_VisibleOnlyOnceStored ==
    [][\A c \in Collections : (MirrorIds(c)' \ MirrorIds(c)) \subseteq IdsOf(db'[c])]_vars

\* C3: upsert idempotence.  When the store confirms a save of a record and the
\* confirmed write before it, in that collection, was a save of the same record
\* with the same field values (updatedAt aside), then the store holds exactly one
\* record of that id, the mirror holds exactly one, and the second updatedAt is
\* not before the first.
SameButUpdatedAt(a, b) ==
    /\ DOMAIN a = DOMAIN b
    /\ \A f \in DOMAIN a \ {"updatedAt"} : a[f] = b[f]
SaveDone(c, id) ==
    /\ Succeeded("put")
    /\ ev.req.fn \in {"saveNote", "saveTool"}
    /\ ev.coll = c
    /\ ev.id = id
SecondSave(c, id) ==
    /\ SaveDone(c, id)'
    /\ lastSave.coll = c
    /\ lastSave.id = id
    /\ SameButUpdatedAt(lastSave.item, ev'.req.item)
C3_UpsertIdempotence ==
    [][\A c \in Collections, id \in Ids :
        SecondSave(c, id) =>
            /\ CountId(getAllFromStore(db, c), id)' = 1
            /\ CountId(MirrorNow(c), id)' = 1
            /\ ev'.req.item.updatedAt >= lastSave.item.updatedAt]_vars

\* C4: when a confirmed deleteNote/deleteTool completes, the store and the mirror
\* hold no record of that id and hold every other record as before, in the same
\* order; and a record stays in its store until a delete of its id removes it.
Without(recs, id) == LET Other(r) == r.id # id IN SelectSeq(recs, Other)
DeleteDone(c, id) == Succeeded("delete") /\ ev.coll = c /\ ev.id = id
C4_DeleteRemovesOnlyThatId ==
    [][\A c \in Collections, id \in Ids :
        /\ DeleteDone(c, id)' =>
            /\ getAllFromStore(db, c)' = Without(getAllFromStore(db, c), id)
            /\ MirrorNow(c)' = Without(MirrorNow(c), id)
            /\ id \notin IdsOf(getAllFromStore(db, c))' \cup MirrorIds(c)'
        /\ (id \in IdsOf(db[c]) /\ id \notin IdsOf(db'[c])) => DeleteDone(c, id)']_vars
\* A delete has completed that removed one record and left another, in store and
\* mirror.
C4_Witness ==
    /\ Succeeded("delete")
    /\ ev.id \in IdsOf(ev.req.before)
    /\ db[ev.coll] # <<>>
    /\ MirrorNow(ev.coll) # <<>>

\* C5: a confirmed delete of an id that the store does not hold leaves the store
\* as it was, and of an id that the mirror does not hold leaves the mirror as it
\* was; toggleFavorite of an id that is not in the mirror queues no store request
\* and changes neither store nor mirror.
C5_AbsentIdIsNoOp ==
    [][\A c \in Collections, id \in Ids :
        /\ (DeleteDone(c, id)' /\ id \notin IdsOf(db[c])) => db' = db
        /\ (DeleteDone(c, id)' /\ id \notin MirrorIds(c)) => MirrorNow(c)' = MirrorNow(c)
        /\ (ev'.type = "toggleFavorite" /\ ev'.id = id /\ id \notin MirrorIds("tools"))
            => /\ pending' = pending
               /\ db' = db
               /\ MirrorNow("tools")' = MirrorNow("tools")]_vars
\* A delete of an id that was in neither store nor mirror has completed, with
\* another record in both.
C5_Witness ==
    /\ Succeeded("delete")
    /\ ev.id \notin IdsOf(ev.req.before)
    /\ db[ev.coll] # <<>>
    /\ ev.id \notin IdsOf(db[ev.coll])
    /\ MirrorNow(ev.coll) = ev.req.before
    /\ MirrorNow(ev.coll) # <<>>

\* What the search is to match, said for one record: the lowercased text is a
\* substring of a lowercased text field or of a lowercased tag.
TextFields(c) == IF c = "notes" THEN {"title", "content"} ELSE {"name", "description", "url"}
Matches(c, rec, text) ==
    \/ \E f \in TextFields(c) : includes(toLowerCase(rec[f]), toLowerCase(text))
    \/ \E i \in 1..Len(rec.tags) : includes(toLowerCase(rec.tags[i]), toLowerCase(text))
HasTag(rec, tag) == \E i \in 1..Len(rec.tags) : rec.tags[i] = tag
Priority(c, rec) == IF c = "notes" THEN rec.pinned ELSE rec.favorite

\* C6: with tag filter T active, every record the query returns has T among its
\* tags, letter for letter, and every mirror record that passes the search filter
\* and is not returned lacks T.
C6_TagFilterSoundComplete ==
    \A c \in Collections :
        LET q == queried[c]
        IN (q.asked /\ q.tag # <<>>) =>
            /\ \A i \in 1..Len(q.out) : HasTag(q.out[i], q.tag)
            /\ \A k \in 1..Len(q.mirror) :
                (/\ toLowerCase(q.search) = <<>> \/ Matches(c, q.mirror[k], q.search)
                 /\ q.mirror[k].id \notin IdsOf(q.out))
                    => ~HasTag(q.mirror[k], q.tag)
\* A query with tag filter "t" returned one of two records and left out the one
\* tagged "T".
C6_Witness ==
    \E c \in Collections :
        LET q == queried[c]
        IN /\ q.asked /\ q.tag = <<"t">>
           /\ Len(q.mirror) = 2 /\ Len(q.out) = 1
           /\ \E k \in 1..2 : q.mirror[k].id \notin IdsOf(q.out)
                              /\ HasTag(q.mirror[k], <<"T">>)

\* C7: in every query result, whatever the mirror, tag filter, search text and
\* sort key, no non-priority record is directly followed by a priority record
\* (priority: pinned for notes, favorite for tools).
C7_PriorityFirst ==
    \A c \in Collections :
        LET q == queried[c]
        IN q.asked =>
            \A i \in 1..(Len(q.out) - 1) :
                ~(~Priority(c, q.out[i]) /\ Priority(c, q.out[i + 1]))
\* A query sorted by title returned a pinned note before an unpinned one whose
\* title sorts first.
C7_Witness ==
    LET q == queried.notes
    IN /\ q.asked /\ q.sort = "title-asc" /\ Len(q.out) = 2
       /\ q.out[1].pinned /\ ~q.out[2].pinned
       /\ localeCompare(q.out[2].title, q.out[1].title) < 0

\* C8: with non-empty search text S, a record that passes the tag filter is
\* returned if and only if lowercased S is a substring of one of its lowercased
\* text fields (title, content; name, description, url) or of one of its
\* lowercased tags.
C8_SearchFilter ==
    \A c \in Collections :
        LET q == queried[c]
        IN (q.asked /\ q.search # <<>>) =>
            \A k \in 1..Len(q.mirror) :
                (q.tag = <<>> \/ HasTag(q.mirror[k], q.tag)) =>
                    (q.mirror[k].id \in IdsOf(q.out) <=> Matches(c, q.mirror[k], q.search))
\* A search for "A" returned one of two notes, one whose title does not match
\* (it matched by content or tag, in another letter case).
C8_Witness ==
    LET q == queried.notes
    IN /\ q.asked /\ q.search = <<"A">> /\ q.tag = <<>>
       /\ Len(q.mirror) = 2 /\ Len(q.out) = 1
       /\ ~includes(q.out[1].title, <<"A">>)
       /\ ~includes(q.out[1].content, <<"a">>)

\* C9: a query changes neither the mirrors (order and records) nor the store, and
\* a query asked again with the same mirror, tag filter, search text and sort key
\* returns the same sequence of records.
QueryEvents == {"setTagFilter", "clearTagFilter", "search", "sort"}
SameQuestion(a, b) ==
    /\ a.asked /\ b.asked
    /\ a.mirror = b.mirror /\ a.tag = b.tag /\ a.search = b.search /\ a.sort = b.sort
C9_QueryIsPure ==
    [][ev'.type \in QueryEvents =>
        /\ notes' = notes /\ tools' = tools /\ heap' = heap /\ db' = db
        /\ \A c \in Collections :
            SameQuestion(queried[c], queried'[c]) => queried'[c].out = queried[c].out]_vars
\* A query with no filter returned two notes in another order than the mirror's.
C9_Witness ==
    LET q == queried.notes
    IN /\ ev.type \in QueryEvents /\ ev.coll = "notes"
       /\ q.asked /\ q.tag = <<>> /\ q.search = <<>>
       /\ Len(q.out) = 2 /\ q.out # MirrorNow("notes")

\* C10 as stated: after an import that succeeded (and with no store request left
\* pending), the record of every candidate whose id was in the mirror has, in
\* mirror and store, the candidate's value for every field the candidate carries
\* and the value it had before the import for every other field.
FieldLevel(rec, old, cand) ==
    /\ \A f \in DOMAIN cand : Has(rec, f) /\ rec[f] = cand[f]
    /\ \A f \in DOMAIN old \ DOMAIN cand : Has(rec, f) /\ rec[f] = old[f]
RecordOf(recs, id) == recs[CHOOSE k \in 1..Len(recs) : recs[k].id = id]
C10_AfterImport ==
    (ev.result = "success" /\ \A d \in Collections : pending[d] = <<>>) =>
        \A c \in Collections : \A k \in 1..Len(ev.data[c].v) :
            LET cand == ev.data[c].v[k]
            IN cand.id \in IdsOf(ev.had[c]) =>
                /\ cand.id \in MirrorIds(c) \cap IdsOf(db[c])
                /\ FieldLevel(RecordOf(MirrorNow(c), cand.id), RecordOf(ev.had[c], cand.id), cand)
                /\ FieldLevel(RecordOf(db[c], cand.id), RecordOf(ev.had[c], cand.id), cand)

\* C11: after an import that succeeded (and with no store request left pending),
\* every candidate whose id was not in the mirror when the import began has
\* exactly one record of that id in the mirror and exactly one in the store, also
\* when the snapshot lists the id more than once; when it lists the id once, both
\* records have all fields equal to the candidate's.
C11_MergeAppend ==
    (ev.result = "success" /\ \A d \in Collections : pending[d] = <<>>) =>
        \A c \in Collections : \A k \in 1..Len(ev.data[c].v) :
            LET cand == ev.data[c].v[k]
            IN cand.id \notin IdsOf(ev.had[c]) =>
                /\ CountId(MirrorNow(c), cand.id) = 1
                /\ CountId(db[c], cand.id) = 1
                /\ CountId(ev.data[c].v, cand.id) = 1 =>
                    /\ RecordOf(MirrorNow(c), cand.id) = cand
                    /\ RecordOf(db[c], cand.id) = cand

\* C12: an import of the snapshot that the import just before it merged
\* successfully (nothing else having happened in between) leaves the mirror and
\* the store of both collections exactly as they were when it began.
C12_ImportIdempotent ==
    (ev.result = "success" /\ ev.prev = ev.data) =>
        \A c \in Collections :
            /\ MirrorNow(c) = ev.had[c]
            /\ getAllFromStore(db, c) = ev.hadStore[c]

\* C13: an import of a snapshot whose notes or tools is missing or is not a list
\* ends without success and with the mirror and the store of both collections as
\* they were when the file had been read; an import of a snapshot whose notes and
\* tools are both empty lists succeeds and leaves them so too.
Malformed(data) == data.parses /\ (data.notes.t # "array" \/ data.tools.t # "array")
BothEmpty(data) == data.parses /\ data.notes = Array(<<>>) /\ data.tools = Array(<<>>)
Untouched ==
    \A c \in Collections : MirrorNow(c) = ev.had[c] /\ db[c] = ev.hadStore[c]
C13_ValidationFailsFast ==
    /\ (ev.result # "" /\ Malformed(ev.data)) => (ev.result # "success" /\ Untouched)
    /\ (ev.result # "" /\ BothEmpty(ev.data)) => (ev.result = "success" /\ Untouched)

\* C14: an import ends at a candidate whose store write failed only when that
\* candidate is the last one of the snapshot: while candidates of either
\* collection remain, the import goes on after a failed write.
ImportWrites == {"importAdd", "importUpdate"}
Remaining ==
    (Len(ev.data[ev.coll].v) - ev.at)
        + (IF ev.coll = "notes" /\ ev.data.tools.t = "array"
           THEN Len(ev.data.tools.v) ELSE 0)
C14_ImportContinues ==
    (ev.type = "done" /\ ~ev.ok /\ ev.req.fn \in ImportWrites /\ ev.result # "") =>
        Remaining = 0

\* C15: the alert that closes an import of a well-formed snapshot which merged at
\* least one record states, for each collection, the number of its candidates
\* whose store write was confirmed.
C15_ReportCountsMerged ==
    (ev.result # "" /\ ~Malformed(ev.data) /\ \E c \in Collections : ev.wrote[c] > 0) =>
        /\ ev.alert.numbers
        /\ \A c \in Collections : ev.alert[c] = ev.wrote[c]

\* C16: when the autosave timer has invoked a save of the current note, that
\* save's store write is the only pending write of a save of that note: no
\* earlier save of the note was still pending when the timer invoked it.
PendingSaves(id) ==
    {k \in 1..Len(pending.notes) :
        pending.notes[k].fn = "saveNote" /\ pending.notes[k].id = id}
C16_AutosaveWaits ==
    ev.type = "autosave" => Cardinality(PendingSaves(ev.id)) <= 1

\* C17: when the store write of a toggleFavorite(id) has succeeded, the tool's
\* favorite value in the mirror and in the store is the negation of its value in
\* the mirror when toggleFavorite was called, and every other field but updatedAt
\* is as it was then.
Toggled(rec, old) ==
    /\ DOMAIN rec = DOMAIN old \cup {"favorite", "updatedAt"}
    /\ rec.favorite = notFavorite(old)
    /\ \A f \in DOMAIN old \ {"favorite", "updatedAt"} : rec[f] = old[f]
ToggleDone == Succeeded("put") /\ ev.req.via = "toggleFavorite"
C17_ToggleFavorite ==
    ToggleDone =>
        LET old == RecordOf(ev.req.before, ev.id)
        IN /\ CountId(MirrorNow("tools"), ev.id) = 1
           /\ CountId(db.tools, ev.id) = 1
           /\ Toggled(RecordOf(MirrorNow("tools"), ev.id), old)
           /\ Toggled(RecordOf(db.tools, ev.id), old)

\* C18: a click on the form's save button with a name or a url that is empty
\* after trimming changes neither the store, nor its pending requests, nor the
\* mirror, nor any record's fields, nor the tool being edited; and every tool
\* record that the form hands to the store, and every one the store has just
\* confirmed for it, has a non-empty name and a non-empty url.
FormRejected == ev.type = "saveToolFromModal" /\ ~ev.ok
Named(item) == item.name # <<>> /\ item.url # <<>>
FormWritesNamed ==
    /\ \A k \in 1..Len(pending.tools) :
           pending.tools[k].via = "saveTool" => Named(pending.tools[k].item)
    /\ (Succeeded("put") /\ ev.req.via = "saveTool") =>
           Named(RecordOf(db.tools, ev.id))
C18_FormValidation ==
    /\ [][FormRejected' => UNCHANGED <<heap, notes, tools, db, pending, editingTool>>]_vars
    /\ []FormWritesNamed
\* An edit of a stored tool has been refused.
C18_Witness ==
    /\ FormRejected
    /\ editingTool # Null
    /\ ev.id \in MirrorIds("tools") \cap IdsOf(db.tools)

\* C19: in every reachable state no two records of a collection's mirror have
\* the same id.
C19_UniqueIds ==
    \A c \in Collections : \A id \in Ids : CountId(MirrorNow(c), id) <= 1

\* C20: in every reachable state, every record of a mirror or of a store that
\* has a createdAt and an updatedAt has updatedAt >= createdAt.
InOrder(rec) ==
    (Has(rec, "createdAt") /\ Has(rec, "updatedAt")) => rec.updatedAt >= rec.createdAt
C20_UpdatedNotBeforeCreated ==
    \A c \in Collections :
        /\ \A k \in 1..Len(MirrorNow(c)) : InOrder(MirrorNow(c)[k])
        /\ \A k \in 1..Len(db[c]) : InOrder(db[c][k])

\* C21: in every step, for every id, a record of that id that is in the mirror
\* before and after the step with a createdAt has the same createdAt before and
\* after, and so has a record of that id in the store.
Kept(recs, id) == id \in IdsOf(recs) /\ Has(RecordOf(recs, id), "createdAt")
CreatedAt(recs, id) == RecordOf(recs, id).createdAt
SameCreatedAt(c, id) ==
    /\ (Kept(MirrorNow(c), id) /\ Kept(MirrorNow(c), id)') =>
           CreatedAt(MirrorNow(c), id)' = CreatedAt(MirrorNow(c), id)
    /\ (Kept(db[c], id) /\ Kept(db[c], id)') =>
           CreatedAt(db[c], id)' = CreatedAt(db[c], id)
C21_CreatedAtImmutable ==
    [][\A c \in Collections : \A id \in Ids : SameCreatedAt(c, id)]_vars

\* C22: every record handed to a store by a put carries, as its updatedAt, the
\* time at which the put was made; this holds for the puts of saveNote, saveTool,
\* toggleFavorite and of the import's upserts alike.
Stamped(req) ==
    req.op = "put" => (Has(req.item, "updatedAt") /\ req.item.updatedAt = req.issued)
C22_WritesStampUpdatedAt ==
    \A c \in Collections : \A k \in 1..Len(pending[c]) : Stamped(pending[c][k])

\* C23: whenever no store request is pending and no import is under way, each
\* mirror holds exactly the ids its store holds, and each record of the mirror
\* has the same fields and values as the store's record of that id.
Quiescent ==
    /\ \A k \in Imports : imp[k].pc = "idle"
    /\ \A c \in Collections : pending[c] = <<>>
C23_MirrorMatchesStore ==
    Quiescent =>
        \A c \in Collections :
            /\ MirrorIds(c) = IdsOf(db[c])
            /\ \A k \in 1..Len(MirrorNow(c)) :
                   MirrorNow(c)[k] = RecordOf(db[c], MirrorNow(c)[k].id)

\* C25: in a query result, any two records of the same group (both priority or
\* both not) stand in the order of the sort key, and in mirror order when the
\* key does not tell them apart; an unmatched sort key tells no two records
\* apart, so that each group is then in mirror order.
PlaceIn(recs, id) == CHOOSE k \in 1..Len(recs) : recs[k].id = id
InSortOrder(c, q, a, b) ==
    /\ compare(c, q.sort, a, b) <= 0
    /\ compare(c, q.sort, a, b) = 0 => PlaceIn(q.mirror, a.id) < PlaceIn(q.mirror, b.id)
C25_StablePartition ==
    \A c \in Collections :
        LET q == queried[c]
        IN q.asked =>
            \A i, j \in 1..Len(q.out) :
                (i < j /\ Priority(c, q.out[i]) = Priority(c, q.out[j])) =>
                    InSortOrder(c, q, q.out[i], q.out[j])
\* A query with an unmatched sort key over a mirror in which a priority record
\* stands between two others returned the priority record first and behind it
\* the two others in mirror order, which every key on createdAt would have put
\* the other way round or left tied.
C25_Witness ==
    \E c \in Collections :
        LET q == queried[c]
        IN /\ q.asked /\ q.sort = UnmatchedKey /\ Len(q.mirror) = 3
           /\ ~Priority(c, q.mirror[1]) /\ Priority(c, q.mirror[2])
           /\ ~Priority(c, q.mirror[3])
           /\ q.out = <<q.mirror[2], q.mirror[1], q.mirror[3]>>
           /\ q.out # q.mirror
           /\ q.mirror[1].createdAt < q.mirror[3].createdAt

\* C26: every pending store request belongs to an operation that was started
\* when no request of its store was pending: no save, delete, toggleFavorite or
\* import write is started on a collection while an earlier operation's write on
\* that collection is still pending.
C26_SingleWriter ==
    \A c \in Collections : \A k \in 1..Len(pending[c]) : pending[c][k].solo

\* C27: the step after the failure of a store write that the autosave timer had
\* issued for a note is never a timer tick that issues a write for that note
\* again: a failed save is issued again only after a new request of the user.
TimerSaveFailed(id) ==
    /\ Completed("put") /\ ~ev.ok
    /\ ev.req.via = "autosave" /\ ev.id = id
TimerSaves(id) == ev.type = "autosave" /\ ev.id = id
C27_NoAutomaticRetry ==
    [][\A id \in Ids : TimerSaveFailed(id) => ~TimerSaves(id)']_vars

\* C29: when the user has typed into the editor and the very next step is the
\* successful completion of a save (one that was therefore in flight while the
\* user typed), the note is still marked dirty after that step.
Typed == ev.type = "input" /\ currentNote # Null /\ isDirty
SaveCompleted == Succeeded("put") /\ ev.req.fn = "saveNote"
C29_EditStaysDirty ==
    [][(Typed /\ SaveCompleted' /\ currentNote' # Null) => isDirty']_vars

\* C30: a note id that is in neither the notes mirror nor the notes store (as
\* after a completed delete) comes back into either only by a step in which the
\* user creates a note or an import merges a record of that id; the completion
\* of a save cannot bring it back.
Gone(id) == id \notin MirrorIds("notes") /\ id \notin IdsOf(db.notes)
CreatesOrImports ==
    \/ ev.type \in {"newNote", "importRead"}
    \/ ev.type = "done" /\ ev.req.fn \in ImportWrites
C30_DeletedStaysDeleted ==
    [][\A id \in Ids : (Gone(id) /\ ~Gone(id)') => CreatesOrImports']_vars

\* C24: every initApp call of a page load was started while
\* authState.isAuthenticated was true, and in a page load whose session exchange
\* failed or returned no user, or whose session cookie gave no user, initApp has
\* not been started at all.
Refused == boot.outcome \in {"nouser", "fail", "nosession"}
C24_AuthGate ==
    /\ \A k \in 1..Len(boot.apps) : boot.apps[k].authed
    /\ Refused => boot.apps = <<>>
\* The session cookie gave the user, and an initApp call that was started
\* authenticated has registered its listeners.
C24_Witness ==
    /\ boot.outcome = "session"
    /\ \E k \in 1..Len(boot.apps) : boot.apps[k].authed /\ boot.apps[k].pc = "ready"

\* C28: in a page load initApp is started at most once, the listener of
\* #new-note-btn is registered at most once, and one click on that button
\* creates exactly one note.
C28_InitOnce ==
    /\ Len(boot.apps) <= 1
    /\ boot.listeners <= 1
    /\ ev.type = "newNoteButton" => boot.made = 1

\* C31: in every reachable state authState.isAuthenticated is true exactly when
\* authState.user is not null, whatever the session exchange, the check of the
\* existing session and the logout requests gave; and a logout request that
\* failed leaves authState.user and authState.isAuthenticated as they were.
SignedInIffUser == boot.authState.isAuthenticated <=> boot.authState.user # NoUser
LogoutFailed == ev.type = "logout" /\ ~ev.ok
SameAuth ==
    /\ boot.authState.user' = boot.authState.user
    /\ boot.authState.isAuthenticated' = boot.authState.isAuthenticated
C31_AuthStateConsistent ==
    /\ []SignedInIffUser
    /\ [][LogoutFailed' => SameAuth]_vars
\* A logout request has failed and the user is still signed in.
C31_Witness ==
    /\ LogoutFailed
    /\ boot.authState.isAuthenticated /\ boot.authState.user = SomeUser

\* C32: at most one autosave interval timer is active at any time, and none is
\* active while the autosave-interval setting is 'off', after the application's
\* initialisation and after every change of the setting.
C32_OneAutosaveTimer ==
    /\ Cardinality(boot.timers) <= 1
    /\ boot.settings.autosaveInterval = AutosaveOff => boot.timers = {}

====
